---- MODULE Spec2Model ----
(***************************************************************************)
(* Hub of jorgeeab/Reloj_2: the status aggregator of                       *)
(* hub_service/connections.py (poll loop with streak debounce, one SSE     *)
(* loop per node, local-process watcher, websocket broadcast) driven by    *)
(* the registry routes of hub_service/app.py.                              *)
(*                                                                         *)
(* Concurrency is asyncio's: the code between two awaits is one atomic     *)
(* step, and every await is a point where the other coroutines run.        *)
(*                                                                         *)
(* The element of `results` that asyncio.gather hands back for a node      *)
(* (connections.py:236) is an input of the model, drawn from every shape   *)
(* lines 242-261 distinguish.  Note on lines 230-235: client.get() is      *)
(* built after the `async with httpx.AsyncClient` block has ended, so with *)
(* a real httpx client each element is the exception of a closed client;   *)
(* the handling of the other shapes is modelled as written, because the    *)
(* properties checked here are about how an observation is handled.        *)
(***************************************************************************)
EXTENDS Integers, Sequences, FiniteSets, TLC

\* ---------------------------------------------------------------- universe

\* Node ids.  "r1" is the node the hub spawns itself (start_local_robot
\* registers it under http://localhost:PORT); "r2" is a remote node.
Robots == {"r1", "r2"}

LocalId == "r1"

\* JSON payloads a node reports (GET /api/status, SSE data: frames).
Payloads == {"d1", "d2"}

\* is_loopback(rb.base_url): only the hub-spawned node has a localhost URL.
is_loopback(r) == r = LocalId

\* How many different node ids one run of the hub gets to know.
MaxNodes == 1

\* Ceiling of both streak counters.
StreakCap == 5

\* Streak a candidate needs before it may replace the cached status.
Threshold == 2

\* ------------------------------------------------------------------- state

VARIABLES
    robots,             \* _store.robots: the registered node ids
    known,              \* history: the ids registered so far (for MaxNodes)
    last_robot_status,  \* _store.last_robot_status (NoStatus: no entry)
    last_robot_seen,    \* _store.last_robot_seen: "none" (no entry) | "set"
    ok_streak,          \* _ok_streak
    fail_streak,        \* _fail_streak
    sse_tasks,          \* _sse_tasks: position of each node's _sse_loop
    local_proc,         \* _get_local_proc(): "none" | "running" | "exited"
    pollPc,             \* position of _poll_robots_loop
    pollRobots,         \* its local `robots`, captured before the gather
    emitted,            \* history: the last step called broadcast_status_snapshot
    runKind,            \* history: kind of the node's latest poll observation
    runLen,             \* history: length of the run it ends (counted to 2)
    procMarked,         \* history: the watcher has marked the exited process
    scenOk,             \* history: only polls of one startup node happened so far
    scenHist,           \* history: kinds of that node's poll observations
    scenBc,             \* history: status broadcasts emitted so far
    sseEvt,             \* history: the stream event the last step received
    okSince             \* history: successful polls since the node's latest
                        \* marking by the stream or the watcher (-1: never marked)

aggVars == <<robots, known, last_robot_status, last_robot_seen,
             ok_streak, fail_streak, sse_tasks, local_proc, pollPc,
             pollRobots, emitted, runKind, runLen, procMarked,
             scenOk, scenHist, scenBc, sseEvt, okSince>>

\* The subscriber side: the hub's websocket clients and its broadcasts.
VARIABLES
    ws_clients,         \* ws_clients: the list of subscriber sockets
    wsState,            \* each socket: "new" | "open" | "broken" | "closed"
    hasPlants,          \* the store holds at least one plant
    bcasts,             \* the broadcast() calls suspended at a send
    recv,               \* what each subscriber's socket has been sent
    nextVer,            \* status snapshots produced so far
    returned            \* history: the broadcast that returned in the last step

bcVars == <<ws_clients, wsState, hasPlants, bcasts, recv, nextVer, returned>>

\* The task side of the hub: its task records and the routes that dispatch,
\* stop and reconcile them, against one node's execution table.
VARIABLES
    tasks,              \* store.tasks: the records, newest first
    persisted,          \* the "tasks" of hub_data.json, as last saved
    nodeExec,           \* the node's execution table: status by execution id
    req,                \* the dispatch or stop route suspended at its request
    recon,              \* position of _poll_tasks_status
    hubMsg,             \* history: the envelope the last step broadcast
    lastCode,           \* history: the HTTP status the last step answered with
    contacted,          \* history: the last step sent a request to the node
    lastQueried,        \* history: status of the record the last step queried
    passEnd,            \* history: the last step ended a pass ("changed" or not)
    passChanged,        \* history: the pass under way has changed a record
    answered,           \* history: what the pass read from the last answer
    hubStarted          \* history: executions started through a hub route

taskVars == <<tasks, persisted, nodeExec, req, recon, hubMsg, lastCode,
              contacted, lastQueried, passEnd, passChanged, answered,
              hubStarted>>

\* One node seen from inside: its execute and control handlers, the
\* executor and the runner behind them, and the environment they drive.
VARIABLES
    nodeKind,           \* which server the node runs: "reloj" | "pump"
    serial,             \* the serial link is open (the node is not virtual)
    runnerActive,       \* protocol_runner.status().activo
    hx,                 \* each execute request: handler position, last answer
    ctl,                \* the control request: handler position, last answer
    tick,               \* the tick loop: "idle" | "mid" (between read and apply)
    env                 \* the environment: who wrote its actuators last

nodeVars == <<nodeKind, serial, runnerActive, hx, ctl, tick, env>>

hubTaskVars == <<tasks, persisted, req, recon, hubMsg, lastCode, contacted,
                 lastQueried, passEnd, passChanged, answered, hubStarted>>

\* The protocol runner of a node, one activation after another.
VARIABLES
    rState,             \* "idle" | "running"
    rProto,             \* the protocol activated last
    rTimeout,           \* the timeout it was activated with, in ticks
    rLeft,              \* ticks left until the deadline
    rActuators,         \* "zero" | "moving": what the last patch commanded
    rResult,            \* status tag of the last execution that ended
    rFinalized          \* history: the finalize hook ran in the last step

runVars == <<rState, rProto, rTimeout, rLeft, rActuators, rResult, rFinalized>>

\* The node's answers to requests that name something it does not know.
VARIABLES
    ux,                 \* answer to the last execute request for an unknown protocol
    sx                  \* the last stop request: execution id and answer

edgeVars == <<ux, sx>>

\* The recomputation of a daily schedule, as a function of the wall clock.
VARIABLES
    dNow,               \* the wall clock, in units of 1/SubMinute minute
    dHour, dMinute,     \* the schedule's hour and minute
    dNext,              \* its next_execution
    dCause              \* what computed dNext last, "idle" once time has passed

dailyVars == <<dNow, dHour, dMinute, dNext, dCause>>

\* The node's scheduler and the executor it dispatches to.
VARIABLES
    scheds,             \* schedule id -> the schedule, or Absent
    exBusy,             \* the executor has an active execution
    protoPresent,       \* the schedules' target protocol exists
    extLeft,            \* execute requests from outside still to come
    dueLeft,            \* times a next_execution is still to be reached
    sd,                 \* the scheduler's last dispatch: schedule and outcome
    cx                  \* the last create or delete request and its answer

schedVars == <<scheds, exBusy, protoPresent, extLeft, dueLeft, sd, cx>>

\* The hub's poll loop over two registered nodes.
VARIABLES
    pStatus,            \* _store.last_robot_status of the two nodes
    pOkStreak,          \* _ok_streak
    pFailStreak,        \* _fail_streak
    pPc,                \* where the loop is: sleep, gather, cancelled, dead
    pRes,               \* the answers the last pass gathered
    pFault              \* what raised after the last pass applied them

pollVars == <<pStatus, pOkStreak, pFailStreak, pPc, pRes, pFault>>

\* The hub's store and its file.
VARIABLES
    stRobots,           \* Store.robots: node id -> Robot, or NoRobot
    stTasks,            \* Store.tasks
    stCache,            \* Store.last_robot_status
    stFile,             \* hub_data.json, or NoFile
    stBoots             \* how often the hub process was started again

storeVars == <<stRobots, stTasks, stCache, stFile, stBoots>>

\* The shared calendar: one file, one SharedCalendar per robot process.
VARIABLES
    calUp,              \* process -> its SharedCalendar exists
    calMem,             \* process -> its _tasks: task id -> value, or "none"
    calFile,            \* shared_calendar.json: task id -> value, or "none"
    calTruth            \* task id -> what the last change by any process made it

calVars == <<calUp, calMem, calFile, calTruth>>

\* get_shared_calendar called from several threads of one process.
VARIABLES
    gPc,                \* thread -> where its call is
    gGlobal,            \* _global_calendar: 0 for None, else the instance
    gCreated,           \* SharedCalendar instances (and cleanup threads) made
    gRet                \* thread -> what its last call returned, 0 for none yet

singleVars == <<gPc, gGlobal, gCreated, gRet>>

\* One SharedCalendar, its task map and its change callbacks.
VARIABLES
    ctTasks,            \* _tasks: key -> the id field of the task stored, or "none"
    cbList,             \* _change_callbacks, in order of registration
    cbCalls,            \* the callback invocations of the last operation
    ctOp                \* the last operation: name, key, return value

notifyVars == <<ctTasks, cbList, cbCalls, ctOp>>

\* The pump node: PumpController and TaskRunner of server_pump.py.
VARIABLES
    pLock,              \* PumpController._lock: 0 (free) or the run holding it
    pRunning,           \* PumpController._running
    pStopFlag,          \* PumpController._stop_flag
    rPc,                \* position of each execution's thread (_run)
    pLeft,              \* what is left of the requested time of the run that
                        \* holds the lock, in passes of its loop
    rEnd,               \* history: how the run's timed loop ended
    xStatus,            \* TaskRunner.tasks[exec_id].status ("none": no entry)
    sPc,                \* position of each thread calling TaskRunner.stop
    sTarget,            \* its exec_id
    sDuring,            \* history: the run in its loop when pump.stop was called
    stopReturned        \* history: TaskRunner.stop(exec_id) has returned

pumpVars == <<pLock, pRunning, pStopFlag, rPc, pLeft, rEnd, xStatus, sPc,
              sTarget, sDuring, stopReturned>>

\* The hub's regimens and activities: generate_activities of app.py.
VARIABLES
    regimen,            \* the stored regimen: frecuencia, unit, start, end
    end_limit,          \* end_limit of the request: utcnow() + days_ahead
    genPc,              \* position of the handler: "idle" | "loop" | "failed"
    genCur,             \* cur of the frequency loop
    activities,         \* fecha of the regimen's activities in store.activities
    genCalls,           \* history: calls completed since the regimen was stored
    genPass             \* history: parity of the passes of the running loop

genVars == <<regimen, end_limit, genPc, genCur, activities, genCalls,
             genPass>>

\* The groups of the node's scheduler and of the shared stores.
laterVars == <<dailyVars, schedVars, pollVars, storeVars, calVars, singleVars, notifyVars, pumpVars, genVars>>

\* The groups that stand still in the specifications of the hub and of the
\* node's handlers.
lateVars == <<runVars, edgeVars, laterVars>>

nonAggVars == <<bcVars, taskVars, nodeVars, lateVars>>

nonBcVars == <<aggVars, taskVars, nodeVars, lateVars>>

nonTaskVars == <<aggVars, bcVars, nodeVars, lateVars>>

nonNodeVars == <<aggVars, bcVars, hubTaskVars, lateVars>>

\* What a handler of the node leaves alone besides the node's own state.
nonEdgeVars == <<aggVars, bcVars, hubTaskVars, runVars, laterVars>>

earlyVars == <<aggVars, bcVars, taskVars, nodeVars>>

nonRunVars == <<earlyVars, edgeVars, laterVars>>

\* What the scheduler and the stores leave alone, each given its own group.
nodeSideVars == <<earlyVars, runVars, edgeVars>>

nonDailyVars == <<nodeSideVars, schedVars, pollVars, storeVars, calVars, singleVars, notifyVars, pumpVars, genVars>>

nonSchedVars == <<nodeSideVars, dailyVars, pollVars, storeVars, calVars, singleVars, notifyVars, pumpVars, genVars>>

nonPollVars == <<nodeSideVars, dailyVars, schedVars, storeVars, calVars, singleVars, notifyVars, pumpVars, genVars>>

nonStoreVars == <<nodeSideVars, dailyVars, schedVars, pollVars, calVars, singleVars, notifyVars, pumpVars, genVars>>

nonCalVars == <<nodeSideVars, dailyVars, schedVars, pollVars, storeVars, singleVars, notifyVars, pumpVars, genVars>>

nonSingleVars == <<nodeSideVars, dailyVars, schedVars, pollVars, storeVars, calVars, notifyVars, pumpVars, genVars>>

nonNotifyVars == <<nodeSideVars, dailyVars, schedVars, pollVars, storeVars, calVars, singleVars, pumpVars, genVars>>

nonPumpVars == <<nodeSideVars, dailyVars, schedVars, pollVars, storeVars, calVars, singleVars, notifyVars, genVars>>

nonGenVars == <<nodeSideVars, dailyVars, schedVars, pollVars, storeVars, calVars, singleVars, notifyVars, pumpVars>>

vars == <<earlyVars, lateVars>>

\* ------------------------------------------------------------ status values

NoStatus == [none |-> TRUE]

IdleStatus == [ok |-> FALSE, error |-> "idle"]

SseOffline == [ok |-> FALSE, error |-> "sse_disconnected"]

ProcOffline == [ok |-> FALSE, error |-> "process_exited"]

OnlineStatus(d) == [ok |-> TRUE, data |-> d]

\* _store.last_robot_status.get(rb.id, {}).get('ok')
IsOnline(s) == "ok" \in DOMAIN s /\ s.ok

Min(a, b) == IF a <= b THEN a ELSE b

\* ------------------------------------------------------- poll observations

\* What one element of `results` can be: an exception ("exc"), a response
\* with a status other than 200 ("http"), or a 200 response with a payload.
PollResults == {"exc", "http"} \cup Payloads

ResOk(res) == res \in Payloads

Kind(res) == IF ResOk(res) THEN "ok" ELSE "fail"

\* Length of the poll scenario whose history is kept (fail, fail, ok, ok).
ScenLen == 4

\* The candidate status built from one result.
Cand(res) ==
    CASE res = "exc"  -> [ok |-> FALSE, error |-> "neterr"]
      [] res = "http" -> [ok |-> FALSE, status |-> "non200"]
      [] OTHER        -> OnlineStatus(res)

\* A success streak that a failed observation leaves standing.
OkStreakKept(r, res) ==
    IF ResOk(res) THEN Min(ok_streak[r] + 1, StreakCap) ELSE ok_streak[r]

\* _ok_streak[rb.id] after the observation (lines 264 and 271).
OkStreakAfter(r, res) ==
    IF ResOk(res) THEN Min(ok_streak[r] + 1, StreakCap) ELSE 0

\* _fail_streak[rb.id] after the observation (lines 265 and 270).
FailStreakAfter(r, res) ==
    IF ResOk(res) THEN 0 ELSE Min(fail_streak[r] + 1, StreakCap)

StreakTotal(r, res) == ok_streak[r] + fail_streak[r] + 1

\* The streak of the observation's own kind, after counting it.
StreakOfKind(r, res) ==
    IF ResOk(res) THEN OkStreakAfter(r, res) ELSE FailStreakAfter(r, res)

FlipsAlways(r, res) == last_robot_status[r] # Cand(res)

\* Whether the result replaces the cached status (`changed = True`).
Flips(r, res) ==
    StreakOfKind(r, res) >= Threshold /\ last_robot_status[r] # Cand(res)

ChangedAlways(res) == TRUE

\* The loop's `changed` flag after the results res (a function on the
\* captured nodes) were applied: what decides the broadcast.
Changed(res) == \E r \in DOMAIN res : Flips(r, res[r])

StatusAfter(r, res) == IF Flips(r, res) THEN Cand(res) ELSE last_robot_status[r]

\* ------------------------------------------------------------------- Init

AggInit ==
    /\ robots \in {R \in SUBSET Robots : Cardinality(R) <= MaxNodes}
    /\ known = robots
    /\ last_robot_status =
         [r \in Robots |-> IF r \in robots THEN IdleStatus ELSE NoStatus]
    /\ last_robot_seen = [r \in Robots |-> "none"]
    /\ ok_streak = [r \in Robots |-> 0]
    /\ fail_streak = [r \in Robots |-> 0]
    /\ sse_tasks = [r \in Robots |-> "none"]
    /\ local_proc = "none"
    /\ pollPc = "sleep"
    /\ pollRobots = {}
    /\ emitted = FALSE
    /\ runKind = [r \in Robots |-> "none"]
    /\ runLen = [r \in Robots |-> 0]
    /\ procMarked = FALSE
    /\ scenOk = (Cardinality(robots) = 1)
    /\ scenHist = <<>>
    /\ scenBc = 0
    /\ sseEvt = <<>>
    /\ okSince = [r \in Robots |-> -1]

\* -------------------------------------------------------------- poll loop

\* The history of markings after a step that marks the nodes of `marked`
\* offline and applies a successful poll observation to the nodes of `oks`.
MarkStep(marked, oks) ==
    okSince' = [r \in Robots |->
        IF r \in marked THEN 0
        ELSE IF okSince[r] >= 0 /\ r \in oks THEN Min(okSince[r] + 1, 2)
        ELSE okSince[r]]

ScenVoid == scenOk' = FALSE /\ scenHist' = <<>> /\ scenBc' = 0

NoEvt == sseEvt' = <<>>

\* One pass of the while loop up to the gather: the registry is copied and
\* one request per node is started.  With an empty registry the pass does
\* nothing to the node statuses.
PollStart ==
    /\ pollPc = "sleep"
    /\ robots # {}
    /\ pollPc' = "gather"
    /\ pollRobots' = robots
    /\ emitted' = FALSE
    /\ NoEvt
    /\ UNCHANGED last_robot_seen
    /\ UNCHANGED <<robots, known, last_robot_status, ok_streak,
                   fail_streak, sse_tasks, local_proc, runKind, runLen,
                   procMarked, scenOk, scenHist, scenBc>>
    /\ MarkStep({}, {})

\* The gather returns: every captured node's result is applied, streams are
\* started for the captured nodes that are online and have no entry in
\* _sse_tasks, and the snapshot is broadcast when something changed.
PollApply ==
    /\ pollPc = "gather"
    /\ \E res \in [pollRobots -> PollResults] :
        LET polled(r) == r \in pollRobots
            newStatus == [r \in Robots |->
                IF polled(r) THEN StatusAfter(r, res[r]) ELSE last_robot_status[r]]
        IN  /\ last_robot_status' = newStatus
            /\ ok_streak' = [r \in Robots |->
                 IF polled(r) THEN OkStreakAfter(r, res[r]) ELSE ok_streak[r]]
            /\ fail_streak' = [r \in Robots |->
                 IF polled(r) THEN FailStreakAfter(r, res[r]) ELSE fail_streak[r]]
            /\ last_robot_seen' = [r \in Robots |->
                 IF polled(r) /\ ResOk(res[r]) THEN "set" ELSE last_robot_seen[r]]
            /\ sse_tasks' = [r \in Robots |->
                 IF polled(r) /\ IsOnline(newStatus[r]) /\ sse_tasks[r] = "none"
                 THEN "connect" ELSE sse_tasks[r]]
            /\ emitted' = Changed(res)
            /\ runKind' = [r \in Robots |->
                 IF polled(r) THEN Kind(res[r]) ELSE runKind[r]]
            /\ runLen' = [r \in Robots |->
                 IF ~polled(r) THEN runLen[r]
                 ELSE IF runKind[r] = Kind(res[r])
                      THEN Min(runLen[r] + 1, 2) ELSE 1]
            /\ scenOk' = (scenOk /\ Len(scenHist) < ScenLen)
            /\ scenHist' = IF scenOk'
                           THEN Append(scenHist, Kind(res[CHOOSE r \in pollRobots : TRUE]))
                           ELSE <<>>
            /\ scenBc' = IF scenOk' THEN scenBc + (IF Changed(res) THEN 1 ELSE 0) ELSE 0
            /\ MarkStep({}, {r \in pollRobots : ResOk(res[r])})
    /\ pollPc' = "sleep"
    /\ pollRobots' = {}
    /\ NoEvt
    /\ UNCHANGED <<robots, known, local_proc, procMarked>>

\* --------------------------------------------------------- local process

\* robot_process_running(robot_id): the node is the hub-spawned one and its
\* process is alive.  The pump slot (lines 184-187) is the same test on a
\* second process, which no route of app.py ever starts.
robot_process_running(r) == r = LocalId /\ local_proc = "running"

\* start_sse_task(rb): no second task while one is in _sse_tasks.
StartedSse(running, r) ==
    [running EXCEPT ![r] = IF running[r] = "none" THEN "connect" ELSE running[r]]

\* stop_sse_task(robot_id): pop the entry and cancel the task.  A cancelled
\* task runs no further step of its loop.
StoppedSse(running, r) == [running EXCEPT ![r] = "none"]

\* POST /robots/start: spawn the node's process unless one is alive,
\* register the node under its localhost URL and start its stream.
StartLocal ==
    /\ local_proc # "running"
    /\ Cardinality(known \cup {LocalId}) <= MaxNodes
    /\ local_proc' = "running"
    /\ robots' = robots \cup {LocalId}
    /\ known' = known \cup {LocalId}
    /\ sse_tasks' = StartedSse(sse_tasks, LocalId)
    /\ procMarked' = FALSE
    /\ emitted' = FALSE
    /\ UNCHANGED last_robot_seen
    /\ ScenVoid
    /\ NoEvt
    /\ UNCHANGED <<last_robot_status, ok_streak, fail_streak,
                   pollPc, pollRobots, runKind, runLen>>
    /\ MarkStep({}, {})

\* POST /robots/stop: terminate the process and forget it.
StopLocal ==
    /\ local_proc = "running"
    /\ local_proc' = "none"
    /\ emitted' = FALSE
    /\ UNCHANGED last_robot_seen
    /\ ScenVoid
    /\ NoEvt
    /\ UNCHANGED <<robots, known, last_robot_status, ok_streak,
                   fail_streak, sse_tasks, pollPc, pollRobots, runKind, runLen,
                   procMarked>>
    /\ MarkStep({}, {})

\* The spawned process exits on its own (proc.poll() is no longer None).
ProcExit ==
    /\ local_proc = "running"
    /\ local_proc' = "exited"
    /\ emitted' = FALSE
    /\ UNCHANGED last_robot_seen
    /\ ScenVoid
    /\ NoEvt
    /\ UNCHANGED <<robots, known, last_robot_status, ok_streak,
                   fail_streak, sse_tasks, pollPc, pollRobots, runKind, runLen,
                   procMarked>>
    /\ MarkStep({}, {})

\* One pass of _monitor_local_processes that finds the process exited.
MonitorTick ==
    /\ local_proc = "exited"
    /\ last_robot_seen' = [last_robot_seen EXCEPT ![LocalId] = "none"]
    /\ last_robot_status' = [last_robot_status EXCEPT ![LocalId] = ProcOffline]
    /\ sse_tasks' = StoppedSse(sse_tasks, LocalId)
    /\ emitted' = TRUE
    /\ procMarked' = TRUE
    /\ ScenVoid
    /\ NoEvt
    /\ UNCHANGED <<robots, known, ok_streak, fail_streak, local_proc, pollPc,
                   pollRobots, runKind, runLen>>
    /\ MarkStep({LocalId}, {})

\* --------------------------------------------------------- registry routes

\* POST /robots (and /robots/catalog/import): register and start the stream.
AddRobot(r) ==
    /\ r \notin robots
    /\ Cardinality(known \cup {r}) <= MaxNodes
    /\ robots' = robots \cup {r}
    /\ known' = known \cup {r}
    /\ sse_tasks' = StartedSse(sse_tasks, r)
    /\ emitted' = FALSE
    /\ UNCHANGED last_robot_seen
    /\ ScenVoid
    /\ NoEvt
    /\ UNCHANGED <<last_robot_status, ok_streak, fail_streak,
                   local_proc, pollPc, pollRobots, runKind, runLen, procMarked>>
    /\ MarkStep({}, {})

\* DELETE /robots/{id}: unregister and cancel the stream.  The cached
\* status and the streaks of the id are left as they are.
DelRobot(r) ==
    /\ r \in robots
    /\ robots' = robots \ {r}
    /\ UNCHANGED known
    /\ sse_tasks' = StoppedSse(sse_tasks, r)
    /\ emitted' = FALSE
    /\ UNCHANGED last_robot_seen
    /\ ScenVoid
    /\ NoEvt
    /\ UNCHANGED <<last_robot_status, ok_streak, fail_streak,
                   local_proc, pollPc, pollRobots, runKind, runLen, procMarked>>
    /\ MarkStep({}, {})

\* ---------------------------------------------------------------- SSE loop

SseUnchangedRest ==
    UNCHANGED <<robots, known, ok_streak, fail_streak, local_proc, pollPc, pollRobots,
                runKind, runLen, procMarked>>

\* client.stream(...) answers 200: the loop starts reading lines.
SseConnected(r) ==
    /\ sse_tasks[r] = "connect"
    /\ sse_tasks' = [sse_tasks EXCEPT ![r] = "stream"]
    /\ emitted' = FALSE
    /\ UNCHANGED last_robot_seen
    /\ ScenVoid
    /\ NoEvt
    /\ UNCHANGED last_robot_status
    /\ SseUnchangedRest
    /\ MarkStep({}, {})

\* client.stream(...) answers another status: sleep 1.0 and try again.
SseRefused(r) ==
    /\ sse_tasks[r] = "connect"
    /\ sse_tasks' = [sse_tasks EXCEPT ![r] = "sleep"]
    /\ emitted' = FALSE
    /\ UNCHANGED last_robot_seen
    /\ ScenVoid
    /\ NoEvt
    /\ UNCHANGED last_robot_status
    /\ SseUnchangedRest
    /\ MarkStep({}, {})

\* A marking that also starts the node's success streak anew.
SseFailedRestarts(r) ==
    /\ sse_tasks[r] \in {"connect", "stream"}
    /\ last_robot_seen' = [last_robot_seen EXCEPT ![r] = "none"]
    /\ last_robot_status' = [last_robot_status EXCEPT ![r] = SseOffline]
    /\ emitted' = (last_robot_status[r] # SseOffline)
    /\ sse_tasks' = [sse_tasks EXCEPT ![r] = "sleep"]
    /\ ok_streak' = [ok_streak EXCEPT ![r] = 0]
    /\ ScenVoid
    /\ NoEvt
    /\ UNCHANGED <<robots, known, fail_streak, local_proc, pollPc, pollRobots,
                   runKind, runLen, procMarked>>
    /\ MarkStep({r}, {})

\* `except Exception` of the loop: the connection attempt or the open stream
\* raised.  The node is marked offline, the snapshot is broadcast when that
\* changed the cached status, and the loop sleeps 1.0.
SseFailed(r) ==
    /\ sse_tasks[r] \in {"connect", "stream"}
    /\ last_robot_seen' = [last_robot_seen EXCEPT ![r] = "none"]
    /\ last_robot_status' = [last_robot_status EXCEPT ![r] = SseOffline]
    /\ emitted' = (last_robot_status[r] # SseOffline)
    /\ sse_tasks' = [sse_tasks EXCEPT ![r] = "sleep"]
    /\ ScenVoid
    /\ NoEvt
    /\ SseUnchangedRest
    /\ MarkStep({r}, {})

\* After a clean end of the stream (aiter_lines is exhausted without an
\* exception) the with-blocks exit and `while True` connects again at once.
AfterCleanClose == "connect"

SseClosed(r) ==
    /\ sse_tasks[r] = "stream"
    /\ sse_tasks' = [sse_tasks EXCEPT ![r] = AfterCleanClose]
    /\ emitted' = FALSE
    /\ UNCHANGED last_robot_seen
    /\ ScenVoid
    /\ NoEvt
    /\ UNCHANGED last_robot_status
    /\ SseUnchangedRest
    /\ MarkStep({}, {})

\* asyncio.sleep(1.0) is over.
SseWake(r) ==
    /\ sse_tasks[r] = "sleep"
    /\ sse_tasks' = [sse_tasks EXCEPT ![r] = "connect"]
    /\ emitted' = FALSE
    /\ UNCHANGED last_robot_seen
    /\ ScenVoid
    /\ NoEvt
    /\ UNCHANGED last_robot_status
    /\ SseUnchangedRest
    /\ MarkStep({}, {})

SseAppliesAlways(r, d) == last_robot_status[r] # OnlineStatus(d)

\* Whether an event with payload d replaces the cached status: it differs
\* from it, and the node is not a loopback node without a live process.
SseApplies(r, d) ==
    /\ last_robot_status[r] # OnlineStatus(d)
    /\ ~(is_loopback(r) /\ ~robot_process_running(r))

\* A complete `data:` event arrives on the open stream.
SseEvent(r, d) ==
    /\ sse_tasks[r] = "stream"
    /\ IF SseApplies(r, d)
       THEN /\ last_robot_status' = [last_robot_status EXCEPT ![r] = OnlineStatus(d)]
            /\ last_robot_seen' = [last_robot_seen EXCEPT ![r] = "set"]
                    /\ emitted' = TRUE
       ELSE /\ UNCHANGED last_robot_seen
            /\ emitted' = FALSE
            /\ UNCHANGED last_robot_status
    /\ ScenVoid
    /\ sseEvt' = <<r, d>>
    /\ UNCHANGED sse_tasks
    /\ SseUnchangedRest
    /\ MarkStep({}, {})

\* ------------------------------------------------------------ subscribers

Clients == {"c1", "c2"}

\* Status snapshots one run produces.
MaxStatus == 3

\* broadcast() calls that may be suspended at the same time.
MaxInFlight == 2

Range(f) == {f[i] : i \in DOMAIN f}

\* ws.send_text on a socket whose peer is gone, or that is closed, raises.
\* (st: the sockets' states at the send.)
SendFails(st, c) == st[c] # "open"

\* recv after one send_text(msg) to c.
Sent(rcv, st, c, msg) ==
    IF SendFails(st, c) THEN rcv ELSE [rcv EXCEPT ![c] = Append(@, msg)]

\* to_remove / pending after the send to c.
Failed(failed, st, c) == IF SendFails(st, c) THEN failed \cup {c} ELSE failed

DropAllOnFailure(list, failed) == IF failed = {} THEN list ELSE <<>>

\* The list after `for ws in to_remove: ws_clients.remove(ws)`.
Remaining(list, failed) == SelectSeq(list, LAMBDA c : c \notin failed)

\* broadcast(payload) up to its first suspension: nothing with no client,
\* else the list is copied and the first send is made.
BroadcastBegins(list, st, msg, owner) ==
    IF list = <<>>
    THEN /\ bcasts' = bcasts
         /\ recv' = recv
    ELSE /\ bcasts' = bcasts \cup
              {[msg |-> msg, targets |-> list, todo |-> Tail(list),
                failed |-> Failed({}, st, Head(list)), owner |-> owner]}
         /\ recv' = Sent(recv, st, Head(list), msg)

NoBroadcast == [msg |-> <<>>]

BcInit ==
    /\ ws_clients = <<>>
    /\ wsState = [c \in Clients |-> "new"]
    /\ hasPlants \in BOOLEAN
    /\ bcasts = {}
    /\ recv = [c \in Clients |-> <<>>]
    /\ nextVer = 0
    /\ returned = NoBroadcast

\* broadcast_status_snapshot(): the payload is built from the store at the
\* call, then broadcast.  Its callers are the poll loop, the stream loops
\* and the process watcher.
StatusBroadcast ==
    /\ nextVer < MaxStatus
    /\ Cardinality(bcasts) < MaxInFlight
    /\ nextVer' = nextVer + 1
    /\ BroadcastBegins(ws_clients, wsState, <<"robots_status", nextVer + 1>>, "hub")
    /\ returned' = NoBroadcast
    /\ UNCHANGED <<ws_clients, wsState, hasPlants>>

\* A suspended broadcast resumes: it makes its next send, or, when none is
\* left, removes the sockets whose send raised and returns.
BroadcastStep(b) ==
    /\ b \in bcasts
    /\ IF b.todo # <<>>
       THEN /\ bcasts' = (bcasts \ {b}) \cup
                 {[b EXCEPT !.todo = Tail(@),
                            !.failed = Failed(@, wsState, Head(b.todo))]}
            /\ recv' = Sent(recv, wsState, Head(b.todo), b.msg)
            /\ returned' = NoBroadcast
            /\ UNCHANGED ws_clients
       ELSE /\ bcasts' = bcasts \ {b}
            /\ ws_clients' = Remaining(ws_clients, b.failed)
            /\ returned' = b
            /\ UNCHANGED recv
    /\ UNCHANGED <<wsState, hasPlants, nextVer>>

\* websocket_feed up to its first suspension: the socket is accepted and
\* appended, and the `snapshot` envelope is broadcast.  json.dumps raises on
\* a Plant object, so with plants in the store the handler ends at once and
\* its finally clause removes the socket again.
WsConnect(c) ==
    /\ wsState[c] = "new"
    /\ Cardinality(bcasts) < MaxInFlight
    /\ IF hasPlants
       THEN /\ wsState' = [wsState EXCEPT ![c] = "closed"]
            /\ UNCHANGED <<ws_clients, bcasts, recv>>
       ELSE /\ wsState' = [wsState EXCEPT ![c] = "open"]
            /\ ws_clients' = Append(ws_clients, c)
            /\ BroadcastBegins(Append(ws_clients, c), wsState', <<"snapshot", c>>, c)
    /\ returned' = NoBroadcast
    /\ UNCHANGED <<hasPlants, nextVer>>

\* The peer of an open socket goes away; the handler, asleep, is not told.
WsBreak(c) ==
    /\ wsState[c] = "open"
    /\ wsState' = [wsState EXCEPT ![c] = "broken"]
    /\ returned' = NoBroadcast
    /\ UNCHANGED <<ws_clients, hasPlants, bcasts, recv, nextVer>>

\* The handler's task is cancelled: its own broadcast, if still under way,
\* is abandoned, and the finally clause removes the socket.
WsCancel(c) ==
    /\ wsState[c] \in {"open", "broken"}
    /\ wsState' = [wsState EXCEPT ![c] = "closed"]
    /\ bcasts' = {b \in bcasts : b.owner # c}
    /\ ws_clients' = Remaining(ws_clients, {c})
    /\ returned' = NoBroadcast
    /\ UNCHANGED <<hasPlants, recv, nextVer>>

\* ------------------------------------------------------------------ tasks

\* The node the task routes talk to; any other id is unknown to the registry.
TaskNode == "r2"

\* Executions the node starts in one run.
MaxExec == 2

ExecIds == 1..MaxExec

\* The statuses _poll_tasks_status skips.
SkippedStatus == {"completed", "stopped", "error"}

\* What the node's execution table holds for a started execution.
NodeStatus == {"running", "completed", "stopped", "error", "timeout"}

NoReq == [kind |-> "none"]

ReconIdle == [pc |-> "idle"]

TaskInit ==
    /\ tasks = <<>>
    /\ persisted = <<>>
    /\ nodeExec = [e \in ExecIds |-> "none"]
    /\ req = NoReq
    /\ recon = ReconIdle
    /\ hubMsg = "none"
    /\ lastCode = "none"
    /\ contacted = FALSE
    /\ lastQueried = "none"
    /\ passEnd = "none"
    /\ passChanged = FALSE
    /\ answered = "none"
    /\ hubStarted = {}

\* History of the last step, for a step that is no part of a pass.
NoPassStep ==
    lastQueried' = "none" /\ passEnd' = "none" /\ answered' = "none"

NodeBusy == \E e \in ExecIds : nodeExec[e] = "running"

NextExecId == CHOOSE e \in ExecIds : nodeExec[e] = "none" /\
                  \A f \in ExecIds : f < e => nodeExec[f] # "none"

\* The routes that post to the node's /api/tasks/execute.
DispatchRoutes == {"execute", "ai_move"}

\* A dispatch route up to its request: NotFound for an unknown id, else the
\* request is sent and the node handles it (it starts an execution, or
\* answers Conflict while one runs, or another error), or the request fails.
DispatchStart(kind, r) ==
    /\ req = NoReq
    /\ IF r \notin robots
       THEN /\ lastCode' = "404"
            /\ contacted' = FALSE
            /\ UNCHANGED <<req, nodeExec, hubStarted>>
       ELSE /\ lastCode' = "none"
            /\ contacted' = TRUE
            /\ \/ /\ ~NodeBusy
                  /\ \E e \in ExecIds : nodeExec[e] = "none"
                  /\ nodeExec' = [nodeExec EXCEPT ![NextExecId] = "running"]
                  /\ hubStarted' = hubStarted \cup {NextExecId}
                  /\ req' = [kind |-> kind, robot |-> r, reply |-> "ok",
                             eid |-> NextExecId]
               \/ /\ NodeBusy
                  /\ req' = [kind |-> kind, robot |-> r, reply |-> "409",
                             eid |-> 0]
                  /\ UNCHANGED <<nodeExec, hubStarted>>
               \/ /\ \E code \in {"400", "exc"} :
                       req' = [kind |-> kind, robot |-> r, reply |-> code,
                               eid |-> 0]
                  /\ UNCHANGED <<nodeExec, hubStarted>>
    /\ hubMsg' = "none"
    /\ NoPassStep
    /\ UNCHANGED <<tasks, persisted, recon, passChanged>>

RecordedFirst(kind, reply) == TRUE

\* Whether the route records the execution the node has started.
Recorded(kind, reply) == kind = "execute" /\ reply = "ok"

\* store.tasks.insert(0, task_rec), with the status of the node's reply.
Inserted(ts, r, e) ==
    <<[id |-> Len(ts) + 1, robot |-> r, eid |-> e, status |-> "executing",
       ended |-> FALSE]>> \o ts

\* The node's answer arrives: a status of 300 or more is raised to the
\* caller as it is; on success execute_custom and assign_task insert the
\* record, save and broadcast task_added, the /ai routes only answer.
DispatchReply ==
    /\ req.kind \in DispatchRoutes
    /\ IF Recorded(req.kind, req.reply)
       THEN /\ tasks' = Inserted(tasks, req.robot, req.eid)
            /\ persisted' = tasks'
            /\ hubMsg' = "task_added"
       ELSE /\ hubMsg' = "none"
            /\ UNCHANGED <<tasks, persisted>>
    /\ lastCode' = CASE req.reply = "ok"  -> "200"
                     [] req.reply = "exc" -> "500"
                     [] OTHER             -> req.reply
    /\ req' = NoReq
    /\ contacted' = FALSE
    /\ NoPassStep
    /\ UNCHANGED <<nodeExec, recon, passChanged, hubStarted>>

\* The record with the given id, and the list with that record replaced.
Rec(ts, id) == ts[CHOOSE i \in DOMAIN ts : ts[i].id = id]

Put(ts, rec) == [i \in DOMAIN ts |-> IF ts[i].id = rec.id THEN rec ELSE ts[i]]

\* The local update of stop_task.
Stopped(t) == [t EXCEPT !.status = "stopped", !.ended = TRUE]

\* POST /tasks/stop up to its request: NotFound for an unknown node id, else
\* the stop request is sent and the node handles it (a running execution is
\* stopped; for any other id the clock node still answers "stopped" and the
\* pump node answers NotFound), or the request fails.
StopStart(r, e) ==
    /\ req = NoReq
    /\ IF r \notin robots
       THEN /\ lastCode' = "404"
            /\ contacted' = FALSE
            /\ UNCHANGED <<req, nodeExec>>
       ELSE /\ lastCode' = "none"
            /\ contacted' = TRUE
            /\ \/ /\ nodeExec' = [nodeExec EXCEPT ![e] =
                        IF @ = "running" THEN "stopped" ELSE @]
                  /\ req' = [kind |-> "stop", robot |-> r, reply |-> "ok",
                             eid |-> e]
               \/ /\ nodeExec[e] # "running"
                  /\ req' = [kind |-> "stop", robot |-> r, reply |-> "404",
                             eid |-> e]
                  /\ UNCHANGED nodeExec
               \/ /\ req' = [kind |-> "stop", robot |-> r, reply |-> "exc",
                             eid |-> e]
                  /\ UNCHANGED nodeExec
    /\ hubMsg' = "none"
    /\ NoPassStep
    /\ UNCHANGED <<tasks, persisted, recon, passChanged, hubStarted>>

\* The node's answer to the stop request arrives: a status of 300 or more
\* (or a failed request) ends the call; on success every record of that node
\* and execution id is marked, the store is saved, and the route is
\* suspended in the tasks_update broadcast.
StopReply ==
    /\ req.kind = "stop"
    /\ IF req.reply = "ok"
       THEN /\ tasks' = [i \in DOMAIN tasks |->
                 IF tasks[i].eid = req.eid /\ tasks[i].robot = req.robot
                 THEN Stopped(tasks[i]) ELSE tasks[i]]
            /\ persisted' = tasks'
            /\ hubMsg' = "tasks_update"
            /\ lastCode' = "none"
            /\ req' = [req EXCEPT !.kind = "stop_bcast"]
       ELSE /\ hubMsg' = "none"
            /\ lastCode' = IF req.reply = "exc" THEN "500" ELSE req.reply
            /\ req' = NoReq
            /\ UNCHANGED <<tasks, persisted>>
    /\ contacted' = FALSE
    /\ NoPassStep
    /\ UNCHANGED <<nodeExec, recon, passChanged, hubStarted>>

\* The broadcast is over and stop_task returns {"status": "stopped"}.
StopReturn ==
    /\ req.kind = "stop_bcast"
    /\ req' = NoReq
    /\ lastCode' = "200"
    /\ hubMsg' = "none"
    /\ contacted' = FALSE
    /\ NoPassStep
    /\ UNCHANGED <<tasks, persisted, nodeExec, recon, passChanged, hubStarted>>

\* Whether the pass asks the node about a record: its status is none of
\* the skipped ones and its node is registered (the execution id is always
\* there).
Queried(t) == t.status \notin SkippedStatus /\ t.robot \in robots

\* The ids of the pass that are left from the first record it asks about.
RECURSIVE FromNextQueried(_, _)
FromNextQueried(ts, ids) ==
    IF ids = <<>> THEN <<>>
    ELSE IF Queried(Rec(ts, Head(ids))) THEN ids
    ELSE FromNextQueried(ts, Tail(ids))

\* The status a record has after a request that failed:
\* t["status"] = t.get("status") or "unknown".
FailedMarksError(st) == "error"

FailedStatus(st) == IF st = "" THEN "unknown" ELSE st

\* The record after an answer of 200 with the node's status and end time:
\* an empty field of the answer leaves the record's own.
Merged(t, answer) ==
    [t EXCEPT !.status = answer,
              !.ended = (answer # "running") \/ @]

\* The pass goes on from the given ids: it sends the next request, which the
\* node answers from its table, or it is over, and then it saves the store
\* and broadcasts tasks_update.
PassGoesOn(ts, ids, changed) ==
    LET left == FromNextQueried(ts, ids)
    IN  IF left = <<>>
        THEN /\ recon' = ReconIdle
             /\ persisted' = ts
             /\ hubMsg' = "tasks_update"
             /\ passEnd' = IF changed THEN "changed" ELSE "unchanged"
             /\ lastQueried' = "none"
             /\ contacted' = FALSE
        ELSE /\ recon' = [pc |-> "wait", cur |-> Head(left),
                          rest |-> Tail(left),
                          answer |-> nodeExec[Rec(ts, Head(left)).eid]]
             /\ hubMsg' = "none"
             /\ passEnd' = "none"
             /\ lastQueried' = Rec(ts, Head(left)).status
             /\ contacted' = TRUE
             /\ UNCHANGED persisted

\* _poll_tasks_status begins a pass over a copy of the list.
ReconStart ==
    /\ recon = ReconIdle
    /\ tasks # <<>>
    /\ PassGoesOn(tasks, [i \in DOMAIN tasks |-> tasks[i].id], FALSE)
    /\ passChanged' = FALSE
    /\ answered' = "none"
    /\ lastCode' = "none"
    /\ UNCHANGED <<tasks, nodeExec, req, hubStarted>>

\* What the hub reads from the node's answer.
ReconOutcomes == {"ok", "nostatus", "fail"}

\* What the pass makes of an answer: a node that does not know the
\* execution answers 404, which is a failure like any status but 200.
Got(outcome, answer) == IF answer = "none" THEN "fail" ELSE outcome

\* The answer to the pass's request arrives and is applied to the record,
\* whatever the record has become meanwhile.
ReconReply(outcome) ==
    /\ recon.pc = "wait"
    /\ LET t == Rec(tasks, recon.cur)
           u == CASE Got(outcome, recon.answer) = "ok" ->
                        Merged(t, recon.answer)
                  [] Got(outcome, recon.answer) = "nostatus" -> t
                  [] OTHER -> [t EXCEPT !.status = FailedStatus(@)]
       IN  /\ tasks' = Put(tasks, u)
           /\ passChanged' = (passChanged \/ u # t)
           /\ PassGoesOn(tasks', recon.rest, passChanged')
    /\ answered' = Got(outcome, recon.answer)
    /\ lastCode' = "none"
    /\ UNCHANGED <<nodeExec, req, hubStarted>>

\* The node's running execution ends by itself.
NodeFinish(e, st) ==
    /\ nodeExec[e] = "running"
    /\ st \in {"completed", "error", "timeout"}
    /\ nodeExec' = [nodeExec EXCEPT ![e] = st]
    /\ hubMsg' = "none"
    /\ lastCode' = "none"
    /\ contacted' = FALSE
    /\ NoPassStep
    /\ UNCHANGED <<tasks, persisted, req, recon, passChanged, hubStarted>>

\* ------------------------------------------------------------------- node

NodeKinds == {"reloj", "pump"}

\* Execute requests the node handles at a time.
Handlers == {"h1", "h2"}

\* TaskStatus values of an execution that is not over.
NonTerminal == {"queued", "running"}

ActiveExec(table) == {e \in ExecIds : table[e] \in NonTerminal}

HandlerIdle(reply) == [pc |-> "idle", reply |-> reply]

NodeInit ==
    /\ nodeKind \in NodeKinds
    /\ serial \in BOOLEAN
    /\ runnerActive = FALSE
    /\ hx = [h \in Handlers |-> HandlerIdle("none")]
    /\ ctl = HandlerIdle("none")
    /\ tick = "idle"
    /\ env = "zero"

\* The node of the hub's specifications: a clock node with its link open.
NodeAtRest == NodeInit /\ nodeKind = "reloj" /\ serial

\* _is_serial_connected, for a node that is not virtual; the pump server
\* has no such test.
RejectsDisconnected == nodeKind = "reloj" /\ ~serial

\* The handler's own guard before it calls the executor: the clock server
\* asks the runner whether it is active; the pump server has no guard.
HandlerGuard == nodeKind = "reloj" /\ runnerActive

\* POST /api/tasks/execute with a valid request, up to the call of the
\* executor: the answers the handler gives by itself.
ExecBegin(h) ==
    /\ hx[h].pc = "idle"
    /\ hx' = [hx EXCEPT ![h] =
          CASE RejectsDisconnected -> HandlerIdle("disconnected")
            [] HandlerGuard        -> HandlerIdle("conflict")
            [] OTHER               -> [pc |-> "checked", reply |-> "none"]]
    /\ UNCHANGED <<nodeKind, serial, runnerActive, ctl, tick, env, nodeExec>>

\* execute(task_def, async): the guard and the activation in one step under
\* the executor's lock; a conflict is an exception to the handler.
ExecutorRejects == runnerActive \/ ActiveExec(nodeExec) # {}

\* What the handler answers when the executor raised: both servers catch
\* every exception and answer 400 with its text.
RaisedAnswer == "error400"

ExecCall(h) ==
    /\ hx[h].pc = "checked"
    /\ IF ExecutorRejects
       THEN /\ hx' = [hx EXCEPT ![h] = HandlerIdle(RaisedAnswer)]
            /\ UNCHANGED <<nodeExec, runnerActive>>
       ELSE /\ \E e \in ExecIds : nodeExec[e] = "none"
            /\ nodeExec' = [nodeExec EXCEPT ![NextExecId] = "running"]
            /\ runnerActive' = TRUE
            /\ hx' = [hx EXCEPT ![h] = HandlerIdle("executing")]
    /\ UNCHANGED <<nodeKind, serial, ctl, tick, env>>

\* A tick of the runner's loop: it reads the observation, and in a later
\* step applies the patch the protocol computed from it.
TickRead ==
    /\ runnerActive
    /\ tick = "idle"
    /\ tick' = "mid"
    /\ UNCHANGED <<nodeKind, serial, runnerActive, hx, ctl, env, nodeExec>>

TickApply ==
    /\ tick = "mid"
    /\ tick' = "idle"
    /\ env' = "tick"
    /\ UNCHANGED <<nodeKind, serial, runnerActive, hx, ctl, nodeExec>>

\* Between two ticks the runner ends the execution (done, error or
\* deadline): the finalize hook zeroes the actuators.
RunnerDone(e, st) ==
    /\ runnerActive
    /\ tick = "idle"
    /\ nodeExec[e] = "running"
    /\ st \in {"completed", "error", "timeout"}
    /\ nodeExec' = [nodeExec EXCEPT ![e] = st]
    /\ runnerActive' = FALSE
    /\ env' = "zero"
    /\ UNCHANGED <<nodeKind, serial, hx, ctl, tick>>

\* POST /api/control: the clock server answers Disconnected without a link,
\* else it takes env_lock and begins to set the actuators; the pump server
\* begins at once. Neither server looks at the runner.
CtlBegin ==
    /\ ctl.pc = "idle"
    /\ ctl' = CASE RejectsDisconnected -> HandlerIdle("disconnected")
                [] OTHER               -> [pc |-> "writing", reply |-> "none"]
    /\ UNCHANGED <<nodeKind, serial, runnerActive, hx, tick, env, nodeExec>>

\* The command's last setter returns, env_lock is released, the handler
\* answers.
CtlEnd ==
    /\ ctl.pc = "writing"
    /\ env' = "control"
    /\ ctl' = HandlerIdle("ok")
    /\ UNCHANGED <<nodeKind, serial, runnerActive, hx, tick, nodeExec>>

\* The link is opened or closed from the node's settings.
SerialOpen ==
    /\ ~serial
    /\ serial' = TRUE
    /\ UNCHANGED <<nodeKind, runnerActive, hx, ctl, tick, env, nodeExec>>

SerialClose ==
    /\ serial
    /\ serial' = FALSE
    /\ UNCHANGED <<nodeKind, runnerActive, hx, ctl, tick, env, nodeExec>>

\* ----------------------------------------------------------------- runner

\* Protocols the runner is given: calibrar never reports done, regar reports
\* done once the target volume is pumped, ir_posicion once the target
\* position is reached.
Protocols == {"calibrar", "regar", "ir_posicion"}

\* Longest timeout of an activation, in ticks.
MaxTimeout == 5

Timeouts == 1..MaxTimeout

NoResult == "none"

RunInit ==
    /\ rState = "idle"
    /\ rProto = "calibrar"
    /\ rTimeout = 1
    /\ rLeft = 0
    /\ rActuators = "zero"
    /\ rResult = NoResult
    /\ rFinalized = FALSE

\* The done flag a step of the protocol can return.
DoneFlagsAny(p) == BOOLEAN

DoneFlags(p) == IF p = "calibrar" THEN {FALSE} ELSE BOOLEAN

\* What the patch of a step commands: calibrar's constant speed, regar's
\* target flow.
Patched(p) == "moving"

\* activate(name, params) on an idle runner.
Activate(p, t) ==
    /\ rState = "idle"
    /\ rState' = "running"
    /\ rProto' = p
    /\ rTimeout' = t
    /\ rLeft' = t
    /\ rResult' = NoResult
    /\ rFinalized' = FALSE
    /\ UNCHANGED rActuators

\* The safe shutdown: the finalize hook zeroes the actuators (its own
\* exceptions are swallowed by the hook), the runner is idle again.
Shutdown(tag) ==
    /\ rState' = "idle"
    /\ rActuators' = "zero"
    /\ rFinalized' = TRUE
    /\ rResult' = tag
    /\ UNCHANGED <<rProto, rTimeout, rLeft>>

\* A tick before the deadline: the patch is applied; a step that reports
\* done ends the loop.
RunTick(done) ==
    /\ rState = "running"
    /\ rLeft > 0
    /\ done \in DoneFlags(rProto)
    /\ IF done
       THEN Shutdown("completed")
       ELSE /\ rLeft' = rLeft - 1
            /\ rActuators' = Patched(rProto)
            /\ rFinalized' = FALSE
            /\ UNCHANGED <<rState, rProto, rTimeout, rResult>>

\* The deadline has elapsed: the loop ends as on done, tagged timeout.
RunDeadline ==
    /\ rState = "running"
    /\ rLeft = 0
    /\ Shutdown("timeout")

\* stop() from another thread; on an idle runner it does nothing.
RunStop ==
    /\ rState = "running"
    /\ Shutdown("stopped")

\* ------------------------------------------------- node: unknown names

NoStop == [eid |-> 0, reply |-> "none"]

EdgeInit == ux = "none" /\ sx = NoStop

\* The pump server raises its 404 inside the try whose except clause turns
\* every exception into 400.
UnknownProtocolAnswer ==
    IF nodeKind = "reloj" THEN "notfound" ELSE "error400"

\* POST /api/tasks/execute naming a protocol that Protocolo.existe denies:
\* the handler answers before a task definition is made.
ExecUnknown ==
    /\ ux' = IF RejectsDisconnected THEN "disconnected"
             ELSE UnknownProtocolAnswer
    /\ UNCHANGED <<sx, nodeVars, nodeExec>>

\* What the stop handler answers for an id the executor does not stop: the
\* clock server falls back to its local tracker and answers "stopped", the
\* pump server answers 404.
UnstoppedAnswer == IF nodeKind = "reloj" THEN "stopped" ELSE "notfound"

\* POST /api/execution/{id}/stop: the executor stops the active execution
\* (between two ticks, under the runner's lock) and marks a finished one
\* stopped; an id it does not know it leaves alone.
StopRequest(e) ==
    /\ CASE nodeExec[e] = "running" ->
              /\ tick = "idle"
              /\ nodeExec' = [nodeExec EXCEPT ![e] = "stopped"]
              /\ runnerActive' = FALSE
              /\ env' = "zero"
              /\ sx' = [eid |-> e, reply |-> "stopped"]
         [] nodeExec[e] = "none" ->
              /\ sx' = [eid |-> e, reply |-> UnstoppedAnswer]
              /\ UNCHANGED <<nodeExec, runnerActive, env>>
         [] OTHER ->
              /\ nodeExec' = [nodeExec EXCEPT ![e] = "stopped"]
              /\ sx' = [eid |-> e, reply |-> "stopped"]
              /\ UNCHANGED <<runnerActive, env>>
    /\ UNCHANGED <<ux, nodeKind, serial, hx, ctl, tick>>

\* ------------------------------------------------------- daily schedule

SubMinute == 2
MaxDays == 2

MinuteLen == SubMinute
HourLen == 60 * MinuteLen
DayLen == 24 * HourLen
MaxNow == MaxDays * DayLen

HourSamples == {0, 8, 23}
MinuteSamples == {0, 30, 59}

\* now.replace(hour = h, minute = m, second = 0, microsecond = 0)
TodayAt(now, h, m) == (now \div DayLen) * DayLen + h * HourLen + m * MinuteLen

\* A time that is not after now counts as passed only when it is before now.
DailyNextStrict(now, h, m) ==
    IF TodayAt(now, h, m) < now THEN TodayAt(now, h, m) + DayLen
    ELSE TodayAt(now, h, m)

\* Today at hour:minute; tomorrow at hour:minute if that has passed.
DailyNext(now, h, m) ==
    IF TodayAt(now, h, m) <= now THEN TodayAt(now, h, m) + DayLen
    ELSE TodayAt(now, h, m)

DailyInit ==
    /\ dNow \in 0..(MaxNow - 1)
    /\ dHour = 8 /\ dMinute = 0
    /\ dNext = DailyNext(dNow, 8, 0)
    /\ dCause = "idle"

DailyAtRest == dNow = 0 /\ dHour = 8 /\ dMinute = 0 /\ dNext = DailyNext(0, 8, 0)
                 /\ dCause = "idle"

\* POST /api/schedules/create with schedule_type "daily".
DailyCreate(h, m) ==
    /\ dHour' = h /\ dMinute' = m
    /\ dNext' = DailyNext(dNow, h, m)
    /\ dCause' = "create"
    /\ UNCHANGED dNow

\* The scheduler fires the due schedule and recomputes its next_execution.
DailyFire ==
    /\ dNext <= dNow
    /\ dNext' = DailyNext(dNow, dHour, dMinute)
    /\ dCause' = "fire"
    /\ UNCHANGED <<dNow, dHour, dMinute>>

\* The wall clock advances.
TimePasses(d) ==
    /\ dNow + d < MaxNow
    /\ dNow' = dNow + d
    /\ dCause' = "idle"
    /\ UNCHANGED <<dHour, dMinute, dNext>>

\* --------------------------------------------------------------- scheduler

MaxScheds == 2
MaxExternal == 1
MaxElapse == 2

SchedIds == 1..MaxScheds
ScheduleKinds == {"once", "interval", "daily"}
Absent == [kind |-> "none", active |-> FALSE, due |-> FALSE]
NoDispatch == [sid |-> 0, outcome |-> "none"]
NoCrud == [op |-> "none", id |-> 0, reply |-> "none"]

Schedule(kind) == [kind |-> kind, active |-> TRUE, due |-> FALSE]

\* The ids of GET /api/schedules/list.
ListIds(table) == {i \in SchedIds : table[i] # Absent}

\* The schedule set is loaded from its file when the scheduler starts: it
\* may hold a schedule of any kind.
SchedInit ==
    /\ scheds \in {[i \in SchedIds |-> Absent]} \cup
                  {[i \in SchedIds |-> IF i = 1 THEN Schedule(k) ELSE Absent] :
                       k \in ScheduleKinds}
    /\ exBusy = FALSE
    /\ protoPresent \in BOOLEAN
    /\ extLeft = MaxExternal
    /\ dueLeft = MaxElapse
    /\ sd = NoDispatch
    /\ cx = NoCrud

SchedAtRest ==
    /\ scheds = [i \in SchedIds |-> Absent]
    /\ exBusy = FALSE
    /\ protoPresent = TRUE
    /\ extLeft = MaxExternal
    /\ dueLeft = MaxElapse
    /\ sd = NoDispatch
    /\ cx = NoCrud

\* POST /api/schedules/create: only daily and interval schedules are built,
\* any other type is answered 400.
SchedCreate(kind) ==
    /\ IF kind \in {"daily", "interval"}
       THEN \E i \in SchedIds :
               /\ scheds[i] = Absent
               /\ scheds' = [scheds EXCEPT ![i] = Schedule(kind)]
               /\ cx' = [op |-> "create", id |-> i, reply |-> "created"]
       ELSE /\ cx' = [op |-> "create", id |-> 0, reply |-> "error400"]
            /\ UNCHANGED scheds
    /\ sd' = NoDispatch
    /\ UNCHANGED <<exBusy, protoPresent, extLeft, dueLeft>>

DeleteAnswerAlways(removed) == "deleted"

DeleteAnswer(removed) == IF removed THEN "deleted" ELSE "notfound"

\* POST /api/schedules/{task_id}/delete
SchedDelete(i) ==
    /\ scheds' = [scheds EXCEPT ![i] = Absent]
    /\ cx' = [op |-> "delete", id |-> i,
              reply |-> DeleteAnswer(scheds[i] # Absent)]
    /\ sd' = NoDispatch
    /\ UNCHANGED <<exBusy, protoPresent, extLeft, dueLeft>>

\* The wall clock reaches the schedule's next_execution.
BecomeDue(i) ==
    /\ scheds[i].active /\ ~scheds[i].due
    /\ dueLeft > 0
    /\ scheds' = [scheds EXCEPT ![i].due = TRUE]
    /\ dueLeft' = dueLeft - 1
    /\ sd' = NoDispatch
    /\ UNCHANGED <<exBusy, protoPresent, extLeft, cx>>

\* A rejected dispatch deactivates a schedule that fires once.
AfterRejectOnceOff(sch) == IF sch.kind = "once" THEN Absent ELSE sch

\* A rejected dispatch leaves the schedule as it is.
AfterReject(sch) == sch

\* After a fire: once is deactivated, the others get a next_execution in
\* the future.
AfterFire(sch) ==
    IF sch.kind = "once" THEN [sch EXCEPT !.active = FALSE, !.due = FALSE]
    ELSE [sch EXCEPT !.due = FALSE]

DispatchOutcome ==
    CASE ~protoPresent -> "missing"
      [] exBusy        -> "conflict"
      [] OTHER         -> "fired"

\* The scheduler's loop reaches a due active schedule and hands its task to
\* the executor in async mode.
SchedStep(i) ==
    /\ scheds[i].active /\ scheds[i].due
    /\ sd' = [sid |-> i, outcome |-> DispatchOutcome]
    /\ IF DispatchOutcome = "fired"
       THEN /\ exBusy' = TRUE
            /\ scheds' = [scheds EXCEPT ![i] = AfterFire(scheds[i])]
       ELSE /\ scheds' = [scheds EXCEPT ![i] = AfterReject(scheds[i])]
            /\ UNCHANGED exBusy
    /\ UNCHANGED <<protoPresent, extLeft, dueLeft, cx>>

\* POST /api/tasks/execute takes the free executor.
ExternalExecute ==
    /\ ~exBusy /\ protoPresent
    /\ extLeft > 0
    /\ exBusy' = TRUE
    /\ extLeft' = extLeft - 1
    /\ sd' = NoDispatch
    /\ UNCHANGED <<scheds, protoPresent, dueLeft, cx>>

\* The runner returns to idle.
ExecutorDone ==
    /\ exBusy
    /\ exBusy' = FALSE
    /\ sd' = NoDispatch
    /\ UNCHANGED <<scheds, protoPresent, extLeft, dueLeft, cx>>

\* The protocol's file is put into the protocols directory.
ProtocolInstalled ==
    /\ ~protoPresent
    /\ protoPresent' = TRUE
    /\ sd' = NoDispatch
    /\ UNCHANGED <<scheds, exBusy, extLeft, dueLeft, cx>>

\* ------------------------------------------------ poll loop, two nodes

PollNodes == Robots

\* What the gather holds for one node: an exception (refused, timed out),
\* a status other than 200, a 200 whose body is not JSON, a 200 with a
\* JSON payload.
PollAnswers == {"exc", "http", "raw", "d1"}

\* What may raise once the answers are applied: the broadcast of the
\* snapshot, the store's save or the broadcast in _poll_tasks_status.
Faults == {"none", "broadcast", "save"}

NoAnswers == [r \in PollNodes |-> "none"]

RawStatus == [ok |-> TRUE, raw |-> "text"]

\* res.json() raises on a body that is not JSON; the handler catches it and
\* keeps the text.
CandOf(a) == IF a = "raw" THEN RawStatus ELSE Cand(a)

\* `ok = True` is set for every 200.
AnswerOk(a) == a \in {"raw", "d1"}

PollLoopInit ==
    /\ pStatus = [r \in PollNodes |-> IdleStatus]
    /\ pOkStreak = [r \in PollNodes |-> 0]
    /\ pFailStreak = [r \in PollNodes |-> 0]
    /\ pPc = "sleep"
    /\ pRes = NoAnswers
    /\ pFault = "none"

\* The pass up to the gather.
PollTickStart ==
    /\ pPc = "sleep"
    /\ pPc' = "gather"
    /\ pRes' = NoAnswers
    /\ pFault' = "none"
    /\ UNCHANGED <<pStatus, pOkStreak, pFailStreak>>

OkAfter(r, a) == IF AnswerOk(a) THEN Min(pOkStreak[r] + 1, StreakCap) ELSE 0

FailAfter(r, a) == IF AnswerOk(a) THEN 0 ELSE Min(pFailStreak[r] + 1, StreakCap)

PollFlips(r, a) ==
    /\ (IF AnswerOk(a) THEN OkAfter(r, a) ELSE FailAfter(r, a)) >= Threshold
    /\ pStatus[r] # CandOf(a)

\* An exception after the answers were applied ends the loop.
AfterFaultEnds(fault) == IF fault = "none" THEN "sleep" ELSE "dead"

\* `except Exception: pass`, then the sleep at the end of the pass.
AfterFault(fault) == "sleep"

\* The gather returns and the for loop applies every node's answer; then
\* the broadcast and the task reconciliation run, inside the same try.
PollTickApply(res, fault) ==
    /\ pPc = "gather"
    /\ pStatus' = [r \in PollNodes |->
                     IF PollFlips(r, res[r]) THEN CandOf(res[r]) ELSE pStatus[r]]
    /\ pOkStreak' = [r \in PollNodes |-> OkAfter(r, res[r])]
    /\ pFailStreak' = [r \in PollNodes |-> FailAfter(r, res[r])]
    /\ pRes' = res
    /\ pFault' = fault
    /\ pPc' = AfterFault(fault)

\* The task of the loop is cancelled: CancelledError is no Exception and
\* leaves the while loop.
PollCancel ==
    /\ pPc \in {"sleep", "gather"}
    /\ pPc' = "cancelled"
    /\ pRes' = NoAnswers
    /\ pFault' = "none"
    /\ UNCHANGED <<pStatus, pOkStreak, pFailStreak>>

\* ------------------------------------------------------------ hub store

MaxStoreTasks == 2
MaxBoots == 2

\* Python values of the fields, and their JSON text.
PyNone == [py |-> "None"]
PyStr(chars) == [py |-> "str", v |-> chars]

dumps(v) == IF v = PyNone THEN [js |-> "null"]
            ELSE [js |-> "string", chars |-> v.v]

loads(j) == IF j.js = "null" THEN PyNone ELSE PyStr(j.chars)

NoRobot == [absent |-> TRUE]
NoFile == [absent |-> TRUE]

RobotFields == {"id", "name", "base_url", "kind", "api_key", "created_at"}

\* Robot(**data.dict()): created_at is set when the object is made.
NewRobot(r, key) ==
    [id |-> PyStr(r), name |-> PyStr(r), base_url |-> PyStr("url"),
     kind |-> PyStr("hardware"), api_key |-> key, created_at |-> PyStr("t0")]

ApiKeys == {PyNone, PyStr("k")}

\* The records execute_custom inserts: the node's answer may lack an
\* execution id.
StoreTaskRecs ==
    [id : {PyStr("t")}, robot_id : {PyStr("r2")}, plant_id : {PyNone},
     execution_id : {PyNone, PyStr("e1")},
     status : {PyStr("executing"), PyStr("completed")}]

\* Store.save: the dictionary written to the file.  The status cache is
\* not in it.
SaveData(robotsNow, tasksNow) ==
    [robots |-> [k \in {r \in Robots : robotsNow[r] # NoRobot} |->
                    [f \in RobotFields |-> dumps(robotsNow[k][f])]],
     tasks |-> [i \in DOMAIN tasksNow |->
                    [f \in DOMAIN tasksNow[i] |-> dumps(tasksNow[i][f])]]]

\* Robot(**v) with created_at taken anew instead of from the file.
LoadedRobotFresh(obj) ==
    [f \in RobotFields |-> IF f = "created_at" THEN PyStr("now") ELSE loads(obj[f])]

\* Robot(**v)
LoadedRobot(obj) == [f \in RobotFields |-> loads(obj[f])]

\* Store.load
LoadedRobots(file) ==
    [r \in Robots |->
        IF file # NoFile /\ r \in DOMAIN file.robots
        THEN LoadedRobot(file.robots[r]) ELSE NoRobot]

LoadedTasks(file) ==
    IF file = NoFile THEN <<>>
    ELSE [i \in DOMAIN file.tasks |->
            [f \in DOMAIN file.tasks[i] |-> loads(file.tasks[i][f])]]

\* store.last_robot_status.get(rb.id, {"ok": False})
StatusShown(r) == IF stCache[r] = NoStatus THEN [ok |-> FALSE] ELSE stCache[r]

StoreInit ==
    /\ stRobots = [r \in Robots |-> NoRobot]
    /\ stTasks = <<>>
    /\ stCache = [r \in Robots |-> NoStatus]
    /\ stFile = NoFile
    /\ stBoots = 0

\* POST /robots
StoreAddRobot(r, key) ==
    /\ stRobots' = [stRobots EXCEPT ![r] = NewRobot(r, key)]
    /\ stFile' = SaveData(stRobots', stTasks)
    /\ UNCHANGED <<stTasks, stCache, stBoots>>

\* DELETE /robots/{robot_id}
StoreDelRobot(r) ==
    /\ stRobots' = [stRobots EXCEPT ![r] = NoRobot]
    /\ stFile' = SaveData(stRobots', stTasks)
    /\ UNCHANGED <<stTasks, stCache, stBoots>>

\* store.tasks.insert(0, task_rec); store.save()
StoreInsertTask(rec) ==
    /\ Len(stTasks) < MaxStoreTasks
    /\ stTasks' = <<rec>> \o stTasks
    /\ stFile' = SaveData(stRobots, stTasks')
    /\ UNCHANGED <<stRobots, stCache, stBoots>>

\* Telemetry of a registered node reaches the cache; nothing is saved.
StoreTelemetry(r, status) ==
    /\ stRobots[r] # NoRobot
    /\ stCache' = [stCache EXCEPT ![r] = status]
    /\ UNCHANGED <<stRobots, stTasks, stFile, stBoots>>

\* The hub process ends and is started again: store = Store.load().
StoreRestart ==
    /\ stBoots < MaxBoots
    /\ stBoots' = stBoots + 1
    /\ stRobots' = LoadedRobots(stFile)
    /\ stTasks' = LoadedTasks(stFile)
    /\ stCache' = [r \in Robots |-> NoStatus]
    /\ UNCHANGED stFile

\* ------------------------------------------------------- shared calendar

CalProcs == {"reloj", "pump"}
CalTaskIds == {"a", "b"}

CalEmpty == [i \in CalTaskIds |-> "none"]

CalInit ==
    /\ calUp = [p \in CalProcs |-> FALSE]
    /\ calMem = [p \in CalProcs |-> CalEmpty]
    /\ calFile = CalEmpty
    /\ calTruth = CalEmpty

\* SharedCalendar(data_dir): _load_calendar reads the file once.
CalStart(p) ==
    /\ ~calUp[p]
    /\ calUp' = [calUp EXCEPT ![p] = TRUE]
    /\ calMem' = [calMem EXCEPT ![p] = calFile]
    /\ UNCHANGED <<calFile, calTruth>>

\* _save_calendar writes the process's whole _tasks over the file.
CalSaved(p, mem) == mem[p]

\* add_task with the caller's id
CalAdd(p, i) ==
    /\ calUp[p]
    /\ calMem' = [calMem EXCEPT ![p][i] = "added"]
    /\ calFile' = CalSaved(p, calMem')
    /\ calTruth' = [calTruth EXCEPT ![i] = "added"]
    /\ UNCHANGED calUp

\* update_task: False for an id the process does not hold
CalUpdate(p, i) ==
    /\ calUp[p]
    /\ calMem[p][i] # "none"
    /\ calMem' = [calMem EXCEPT ![p][i] = "updated"]
    /\ calFile' = CalSaved(p, calMem')
    /\ calTruth' = [calTruth EXCEPT ![i] = "updated"]
    /\ UNCHANGED calUp

\* delete_task: False for an id the process does not hold
CalDelete(p, i) ==
    /\ calUp[p]
    /\ calMem[p][i] # "none"
    /\ calMem' = [calMem EXCEPT ![p][i] = "none"]
    /\ calFile' = CalSaved(p, calMem')
    /\ calTruth' = [calTruth EXCEPT ![i] = "none"]
    /\ UNCHANGED calUp

\* ------------------------------------------------- the global calendar

MaxThreads == 3
GThreads == 1..MaxThreads

SingleInit ==
    /\ gPc = [t \in GThreads |-> "idle"]
    /\ gGlobal = 0
    /\ gCreated = 0
    /\ gRet = [t \in GThreads |-> 0]

\* `if _global_calendar is None:`
GetCheck(t) ==
    /\ gPc[t] = "idle"
    /\ gPc' = [gPc EXCEPT ![t] = IF gGlobal = 0 THEN "making" ELSE "return"]
    /\ gRet' = [gRet EXCEPT ![t] = 0]
    /\ UNCHANGED <<gGlobal, gCreated>>

\* `_global_calendar = SharedCalendar(data_dir, logger)`: the constructor
\* makes the directory, reads the file and starts the cleanup thread.
GetMake(t) ==
    /\ gPc[t] = "making"
    /\ gCreated' = gCreated + 1
    /\ gGlobal' = gCreated + 1
    /\ gPc' = [gPc EXCEPT ![t] = "return"]
    /\ UNCHANGED gRet

\* `return _global_calendar`
GetReturn(t) ==
    /\ gPc[t] = "return"
    /\ gRet' = [gRet EXCEPT ![t] = gGlobal]
    /\ gPc' = [gPc EXCEPT ![t] = "idle"]
    /\ UNCHANGED <<gGlobal, gCreated>>

\* ----------------------------------------- shared calendar, callbacks

Callbacks == {"c1", "c2"}
CtKeys == {"a", "b"}

NoOp == [op |-> "none", key |-> "none", ret |-> "none", raised |-> {}]

NotifyInit ==
    /\ ctTasks = [k \in CtKeys |-> "none"]
    /\ cbList = <<>>
    /\ cbCalls = <<>>
    /\ ctOp = NoOp

\* register_callback: a callback is appended once.
RegisterCallback(c) ==
    /\ \A n \in DOMAIN cbList : cbList[n] # c
    /\ cbList' = Append(cbList, c)
    /\ cbCalls' = <<>>
    /\ ctOp' = NoOp
    /\ UNCHANGED ctTasks

\* unregister_callback
UnregisterCallback(c) ==
    /\ \E n \in DOMAIN cbList : cbList[n] = c
    /\ cbList' = SelectSeq(cbList, LAMBDA x : x # c)
    /\ cbCalls' = <<>>
    /\ ctOp' = NoOp
    /\ UNCHANGED ctTasks

RECURSIVE NotifiedUntilRaise(_, _, _)
\* The loop over the callbacks ends at the first one that raises.
NotifiedUntilRaise(list, event, raisers) ==
    IF list = <<>> THEN <<>>
    ELSE IF Head(list) \in raisers THEN <<[cb |-> Head(list), event |-> event]>>
    ELSE <<[cb |-> Head(list), event |-> event]>>
            \o NotifiedUntilRaise(Tail(list), event, raisers)

RECURSIVE Notified(_, _, _)
\* _notify_change: every callback is called inside its own try, an
\* exception is logged and the loop goes on.
Notified(list, event, raisers) ==
    IF list = <<>> THEN <<>>
    ELSE <<[cb |-> Head(list), event |-> event]>>
            \o Notified(Tail(list), event, raisers)

\* add_task with the caller's id: the task is stored under task.id.
CtAdd(i, raisers) ==
    /\ ctTasks' = [ctTasks EXCEPT ![i] = i]
    /\ cbCalls' = Notified(cbList, "task_added", raisers)
    /\ ctOp' = [op |-> "add", key |-> i, ret |-> i,
                       raised |-> raisers]
    /\ UNCHANGED cbList

\* What update_task leaves in the id field: setattr is applied to every
\* key of `updates` the task has as an attribute, "id" included.
IdAfterUpdate(old, newId) == IF newId = "same" THEN old ELSE newId

\* update_task(task_id, updates); PUT /api/calendar/tasks/<task_id> passes
\* the request's JSON as updates.
CtUpdate(k, newId, raisers) ==
    /\ IF ctTasks[k] = "none"
       THEN /\ ctOp' = [op |-> "update", key |-> k, ret |-> "False",
                       raised |-> {}]
            /\ cbCalls' = <<>>
            /\ UNCHANGED ctTasks
       ELSE /\ ctTasks' = [ctTasks EXCEPT ![k] = IdAfterUpdate(ctTasks[k], newId)]
            /\ cbCalls' = Notified(cbList, "task_updated", raisers)
            /\ ctOp' = [op |-> "update", key |-> k, ret |-> "True",
                       raised |-> raisers]
    /\ UNCHANGED cbList

\* delete_task
CtDelete(k, raisers) ==
    /\ IF ctTasks[k] = "none"
       THEN /\ ctOp' = [op |-> "delete", key |-> k, ret |-> "False",
                       raised |-> {}]
            /\ cbCalls' = <<>>
            /\ UNCHANGED ctTasks
       ELSE /\ ctTasks' = [ctTasks EXCEPT ![k] = "none"]
            /\ cbCalls' = Notified(cbList, "task_deleted", raisers)
            /\ ctOp' = [op |-> "delete", key |-> k, ret |-> "True",
                       raised |-> raisers]
    /\ UNCHANGED cbList

\* -------------------------------------------------------- the pump node

\* Executions start_riego is called for.
MaxPumpRuns == 2

\* Threads that call TaskRunner.stop.
MaxStops == 1

\* Longest requested run, in passes of the timed loop.
MaxTicks == 2

PExecs == 1..MaxPumpRuns
PStops == 1..MaxStops

PumpInit ==
    /\ pLock = 0
    /\ pRunning = FALSE
    /\ pStopFlag = FALSE
    /\ rPc = [e \in PExecs |-> "none"]
    /\ pLeft = 0
    /\ rEnd = [e \in PExecs |-> "none"]
    /\ xStatus = [e \in PExecs |-> "none"]
    /\ sPc = [t \in PStops |-> "idle"]
    /\ sTarget = [t \in PStops |-> 0]
    /\ sDuring = [t \in PStops |-> 0]
    /\ stopReturned = [e \in PExecs |-> FALSE]

\* The run that is inside its timed loop with time left, 0 when none is.
InLoop == IF pLeft > 0 /\ \E e \in PExecs : rPc[e] = "loop"
          THEN CHOOSE e \in PExecs : rPc[e] = "loop" ELSE 0

\* start_riego: the entry is made with status "running" and the thread is
\* started; its run_ms has yet to take the lock.
StartRiego(e) ==
    /\ rPc[e] = "none"
    /\ \A d \in PExecs : d < e => rPc[d] # "none"
    /\ rPc' = [rPc EXCEPT ![e] = "wait"]
    /\ xStatus' = [xStatus EXCEPT ![e] = "running"]
    /\ UNCHANGED <<pLock, pRunning, pStopFlag, pLeft, rEnd, sPc, sTarget, sDuring,
                   stopReturned>>

\* run_ms(ms) enters `with self._lock`: both flags are set for the run,
\* whose time starts here.
RunAcquire(e, ms) ==
    /\ rPc[e] = "wait"
    /\ pLock = 0
    /\ pLock' = e
    /\ pStopFlag' = FALSE
    /\ pRunning' = TRUE
    /\ rPc' = [rPc EXCEPT ![e] = "loop"]
    /\ pLeft' = ms
    /\ UNCHANGED <<rEnd, xStatus, sPc, sTarget, sDuring, stopReturned>>

\* A finally clause that leaves _running set.
FinallyRunning == [running |-> TRUE, stop_flag |-> FALSE]

\* The flags as the finally clause of run_ms leaves them.
Finally == [running |-> FALSE, stop_flag |-> FALSE]

\* The run leaves the loop, runs the finally clause, releases the lock and
\* returns (how = "full", "early") or raises (how = "raised").
RunLeaves(e, how) ==
    /\ pRunning' = Finally.running
    /\ pStopFlag' = Finally.stop_flag
    /\ pLock' = 0
    /\ rEnd' = [rEnd EXCEPT ![e] = how]
    /\ rPc' = [rPc EXCEPT ![e] = IF how = "raised" THEN "raised" ELSE "after"]
    /\ pLeft' = 0

\* One evaluation of the while condition and one pass of the timed loop:
\* the time is up, or the stop flag is seen, or 20 ms go by.
RunStep(e) ==
    /\ rPc[e] = "loop"
    /\ IF pLeft = 0 THEN RunLeaves(e, "full")
       ELSE IF pStopFlag THEN RunLeaves(e, "early")
       ELSE /\ pLeft' = pLeft - 1
            /\ UNCHANGED <<pLock, pRunning, pStopFlag, rPc, rEnd>>
    /\ UNCHANGED <<xStatus, sPc, sTarget, sDuring, stopReturned>>

\* An exception leaves the loop through the finally clause.
RunRaise(e) ==
    /\ rPc[e] = "loop"
    /\ RunLeaves(e, "raised")
    /\ UNCHANGED <<xStatus, sPc, sTarget, sDuring, stopReturned>>

\* _run after run_ms: "completed" unless the pump is running (again),
\* "error" when run_ms raised.
StatusAfterRun(e) ==
    IF rPc[e] = "raised" THEN "error"
    ELSE IF ~pRunning THEN "completed" ELSE xStatus[e]

RunThreadEnds(e) ==
    /\ rPc[e] \in {"after", "raised"}
    /\ xStatus' = [xStatus EXCEPT ![e] = StatusAfterRun(e)]
    /\ rPc' = [rPc EXCEPT ![e] = "done"]
    /\ UNCHANGED <<pLock, pRunning, pStopFlag, pLeft, rEnd, sPc, sTarget,
                   sDuring, stopReturned>>

\* TaskRunner.stop(exec_id) for a known execution reaches pump.stop().
StopCall(t, e) ==
    /\ sPc[t] = "idle"
    /\ xStatus[e] # "none"
    /\ sPc' = [sPc EXCEPT ![t] = "wait"]
    /\ sTarget' = [sTarget EXCEPT ![t] = e]
    /\ sDuring' = [sDuring EXCEPT ![t] = InLoop]
    /\ UNCHANGED <<pLock, pRunning, pStopFlag, rPc, pLeft, rEnd, xStatus,
                   stopReturned>>

\* PumpController.stop: `with self._lock` is entered once the lock is free,
\* the stop flag is set, the lock released.
PumpStop(t) ==
    /\ sPc[t] = "wait"
    /\ pLock = 0
    /\ pStopFlag' = TRUE
    /\ sPc' = [sPc EXCEPT ![t] = "mark"]
    /\ UNCHANGED <<pLock, pRunning, rPc, pLeft, rEnd, xStatus, sTarget,
                   sDuring, stopReturned>>

\* TaskRunner.stop after pump.stop(): the status is written and the entry
\* returned.
StopReturns(t) ==
    /\ sPc[t] = "mark"
    /\ xStatus' = [xStatus EXCEPT ![sTarget[t]] = "stopped"]
    /\ stopReturned' = [stopReturned EXCEPT ![sTarget[t]] = TRUE]
    /\ sPc' = [sPc EXCEPT ![t] = "idle"]
    /\ UNCHANGED <<pLock, pRunning, pStopFlag, rPc, pLeft, rEnd, sTarget,
                   sDuring>>

\* ------------------------------------------- regimens and activities

\* Length of a minute and of a day in ticks of the model's clock.
TicksPerMinute == 2
TicksPerDay == 4

\* Latest start of a regimen and latest end_limit, in ticks.
MaxStart == 2
MaxLimit == 6

\* frecuencia is any float the request carries: here -1, 0, 0.5 and 1,
\* written in halves.
FrecuenciaHalves == {-2, 0, 1, 2}

Regimens ==
    [f : FrecuenciaHalves, unit : {"minutos", "dias"}, start : 0..MaxStart,
     end : {<<>>, <<MaxStart + 1>>}]

\* step: timedelta(minutes=frecuencia) when the unit starts with "min",
\* timedelta(days=frecuencia) otherwise.
StepOf(r) ==
    (r.f * (IF r.unit = "minutos" THEN TicksPerMinute ELSE TicksPerDay)) \div 2

\* r_end: fecha_fin when the regimen has one, end_limit otherwise.
EndOf(r, limit) == IF r.end = <<>> THEN limit ELSE r.end[1]

\* cur.isoformat(timespec='minutes'): the seconds are cut off.
TsOf(t) == t \div TicksPerMinute

GenInit ==
    /\ regimen \in Regimens
    /\ end_limit \in 0..MaxLimit
    /\ genPc = "idle"
    /\ genCur = 0
    /\ activities = {}
    /\ genCalls = 0
    /\ genPass = 0

GenAtRest ==
    /\ regimen = [f |-> 2, unit |-> "dias", start |-> 0, end |-> <<>>]
    /\ end_limit = 0
    /\ genPc = "idle"
    /\ genCur = 0
    /\ activities = {}
    /\ genCalls = 0
    /\ genPass = 0

\* POST /regimens: the regimen with the same id is replaced; frecuencia and
\* the dates are stored as they come.
AddRegimen(r) ==
    /\ genPc # "loop"
    /\ regimen' = r
    /\ genCalls' = 0
    /\ UNCHANGED <<end_limit, genPc, genCur, activities, genPass>>

\* POST /activities/generate reaches the frequency loop of the regimen.
GenerateStart ==
    /\ genPc # "loop"
    /\ genCalls < 2
    /\ genCur' = regimen.start
    /\ genPc' = "loop"
    /\ genPass' = 0
    /\ UNCHANGED <<regimen, end_limit, activities, genCalls>>

\* One evaluation of `while cur <= min(r_end, end_limit)` and one pass: the
\* activity is appended unless its key exists, and cur += step (an
\* OverflowError when that leaves the range of datetime).  When the
\* condition fails the store is saved and the handler returns.
GeneratePass ==
    /\ genPc = "loop"
    /\ IF genCur <= Min(EndOf(regimen, end_limit), end_limit)
       THEN /\ activities' = activities \cup {TsOf(genCur)}
            /\ IF genCur + StepOf(regimen) < 0
               THEN genPc' = "failed" /\ genCur' = genCur
               ELSE genPc' = "loop" /\ genCur' = genCur + StepOf(regimen)
            /\ UNCHANGED genCalls
       ELSE /\ genPc' = "idle"
            /\ genCalls' = genCalls + 1
            /\ UNCHANGED <<genCur, activities>>
    /\ genPass' = 1 - genPass
    /\ UNCHANGED <<regimen, end_limit>>

\* The state of the scheduler and of the stores in the other specifications.
LaterAtRest == DailyAtRest /\ SchedAtRest /\ PollLoopInit /\ StoreInit /\ CalInit /\ SingleInit /\ NotifyInit /\ PumpInit /\ GenAtRest

\* The state of the parts a specification leaves alone.
LateAtRest == RunInit /\ EdgeInit /\ LaterAtRest

NodeSideAtRest == RunInit /\ EdgeInit

\* The aggregator alone, over a hub without subscribers and without tasks.
Init == AggInit /\ BcInit /\ ~hasPlants /\ TaskInit /\ NodeAtRest /\ LateAtRest

\* The subscriber side alone, over a hub without nodes.
BcastInit ==
    AggInit /\ robots = {} /\ BcInit /\ TaskInit /\ NodeAtRest /\ LateAtRest

NextBcast ==
    \/ StatusBroadcast /\ UNCHANGED nonBcVars
    \/ \E b \in bcasts : BroadcastStep(b) /\ UNCHANGED nonBcVars
    \/ \E c \in Clients : WsConnect(c) /\ UNCHANGED nonBcVars
    \/ \E c \in Clients : WsBreak(c) /\ UNCHANGED nonBcVars
    \/ \E c \in Clients : WsCancel(c) /\ UNCHANGED nonBcVars

Next ==
    \/ PollStart /\ UNCHANGED nonAggVars
    \/ PollApply /\ UNCHANGED nonAggVars
    \/ StartLocal /\ UNCHANGED nonAggVars
    \/ StopLocal /\ UNCHANGED nonAggVars
    \/ ProcExit /\ UNCHANGED nonAggVars
    \/ MonitorTick /\ UNCHANGED nonAggVars
    \/ \E r \in Robots : AddRobot(r) /\ UNCHANGED nonAggVars
    \/ \E r \in Robots : DelRobot(r) /\ UNCHANGED nonAggVars
    \/ \E r \in Robots : SseConnected(r) /\ UNCHANGED nonAggVars
    \/ \E r \in Robots : SseRefused(r) /\ UNCHANGED nonAggVars
    \/ \E r \in Robots : SseFailed(r) /\ UNCHANGED nonAggVars
    \/ \E r \in Robots : SseClosed(r) /\ UNCHANGED nonAggVars
    \/ \E r \in Robots : SseWake(r) /\ UNCHANGED nonAggVars
    \/ \E r \in Robots, d \in Payloads : SseEvent(r, d) /\ UNCHANGED nonAggVars

\* The task routes alone, over a hub whose registry holds one node.
TaskSpecInit ==
    /\ AggInit
    /\ robots = {TaskNode}
    /\ BcInit
    /\ ~hasPlants
    /\ TaskInit
    /\ NodeAtRest
    /\ LateAtRest

\* DELETE /robots/{id} and POST /robots, as far as the task routes see them.
Unregister == robots' = robots \ {TaskNode} /\ robots' # robots

Register == robots' = robots \cup {TaskNode} /\ robots' # robots

RegistryStep ==
    /\ hubMsg' = "none"
    /\ lastCode' = "none"
    /\ contacted' = FALSE
    /\ NoPassStep
    /\ UNCHANGED <<tasks, persisted, nodeExec, req, recon, passChanged,
                   hubStarted>>

restOfAgg == <<known, last_robot_status, last_robot_seen, ok_streak,
               fail_streak, sse_tasks, local_proc, pollPc, pollRobots,
               emitted, runKind, runLen, procMarked, scenOk, scenHist,
               scenBc, sseEvt, okSince>>

NextTasks ==
    \/ \E k \in DispatchRoutes, r \in Robots :
          DispatchStart(k, r) /\ UNCHANGED nonTaskVars
    \/ DispatchReply /\ UNCHANGED nonTaskVars
    \/ \E r \in Robots, e \in ExecIds :
          StopStart(r, e) /\ UNCHANGED nonTaskVars
    \/ StopReply /\ UNCHANGED nonTaskVars
    \/ StopReturn /\ UNCHANGED nonTaskVars
    \/ ReconStart /\ UNCHANGED nonTaskVars
    \/ \E o \in ReconOutcomes : ReconReply(o) /\ UNCHANGED nonTaskVars
    \/ \E e \in ExecIds, st \in NodeStatus :
          NodeFinish(e, st) /\ UNCHANGED nonTaskVars
    \/ Unregister /\ RegistryStep /\ UNCHANGED <<restOfAgg, bcVars, nodeVars, lateVars>>
    \/ Register /\ RegistryStep /\ UNCHANGED <<restOfAgg, bcVars, nodeVars, lateVars>>

\* One node alone, of either kind, with its link open or closed.
NodeSpecInit ==
    /\ AggInit
    /\ robots = {}
    /\ BcInit
    /\ ~hasPlants
    /\ TaskInit
    /\ NodeInit
    /\ LateAtRest

\* Everything but the given part at rest.
EarlyAtRest ==
    AggInit /\ robots = {} /\ BcInit /\ ~hasPlants /\ TaskInit /\ NodeAtRest

RunnerSpecInit == EarlyAtRest /\ LateAtRest

DailySpecInit == EarlyAtRest /\ NodeSideAtRest /\ DailyInit /\ SchedAtRest /\ PollLoopInit /\ StoreInit /\ CalInit /\ SingleInit /\ NotifyInit /\ PumpInit /\ GenAtRest

PollSpecInit == EarlyAtRest /\ NodeSideAtRest /\ DailyAtRest /\ SchedAtRest /\ PollLoopInit /\ StoreInit /\ CalInit /\ SingleInit /\ NotifyInit /\ PumpInit /\ GenAtRest

StoreSpecInit == EarlyAtRest /\ NodeSideAtRest /\ DailyAtRest /\ SchedAtRest /\ PollLoopInit /\ StoreInit /\ CalInit /\ SingleInit /\ NotifyInit /\ PumpInit /\ GenAtRest

NotifySpecInit == EarlyAtRest /\ NodeSideAtRest /\ DailyAtRest /\ SchedAtRest /\ PollLoopInit /\ StoreInit /\ CalInit /\ SingleInit /\ NotifyInit /\ PumpInit /\ GenAtRest

\* The pump node alone.
PumpSpecInit == EarlyAtRest /\ NodeSideAtRest /\ DailyAtRest /\ SchedAtRest /\ PollLoopInit /\ StoreInit /\ CalInit /\ SingleInit /\ NotifyInit /\ PumpInit /\ GenAtRest

\* The regimen routes alone.
GenSpecInit == EarlyAtRest /\ NodeSideAtRest /\ DailyAtRest /\ SchedAtRest /\ PollLoopInit /\ StoreInit /\ CalInit /\ SingleInit /\ NotifyInit /\ PumpInit /\ GenInit

\* Everything of the scheduler, the poll loop and the store at rest.
MidAtRest == DailyAtRest /\ SchedAtRest /\ PollLoopInit /\ StoreInit

CalSpecInit == EarlyAtRest /\ NodeSideAtRest /\ MidAtRest /\ CalInit /\ SingleInit /\ NotifyInit /\ PumpInit /\ GenAtRest

SingleSpecInit == EarlyAtRest /\ NodeSideAtRest /\ MidAtRest /\ CalInit /\ SingleInit /\ NotifyInit /\ PumpInit /\ GenAtRest

SchedSpecInit == EarlyAtRest /\ NodeSideAtRest /\ DailyAtRest /\ SchedInit /\ PollLoopInit /\ StoreInit /\ CalInit /\ SingleInit /\ NotifyInit /\ PumpInit /\ GenAtRest

RunnerLoop ==
    \/ \E d \in BOOLEAN : RunTick(d)
    \/ RunDeadline

NextRunner ==
    \/ \E p \in Protocols, t \in Timeouts :
          Activate(p, t) /\ UNCHANGED nonRunVars
    \/ \E d \in BOOLEAN : RunTick(d) /\ UNCHANGED nonRunVars
    \/ RunDeadline /\ UNCHANGED nonRunVars
    \/ RunStop /\ UNCHANGED nonRunVars

NextNode ==
    \/ \E h \in Handlers : ExecBegin(h) /\ UNCHANGED nonNodeVars
    \/ \E h \in Handlers : ExecCall(h) /\ UNCHANGED nonNodeVars
    \/ TickRead /\ UNCHANGED nonNodeVars
    \/ TickApply /\ UNCHANGED nonNodeVars
    \/ \E e \in ExecIds, st \in NodeStatus :
          RunnerDone(e, st) /\ UNCHANGED nonNodeVars
    \/ CtlBegin /\ UNCHANGED nonNodeVars
    \/ CtlEnd /\ UNCHANGED nonNodeVars
    \/ SerialOpen /\ UNCHANGED nonNodeVars
    \/ SerialClose /\ UNCHANGED nonNodeVars
    \/ ExecUnknown /\ UNCHANGED nonEdgeVars
    \/ \E e \in ExecIds : StopRequest(e) /\ UNCHANGED nonEdgeVars

NextDaily ==
    \/ \E h \in HourSamples, m \in MinuteSamples :
          DailyCreate(h, m) /\ UNCHANGED nonDailyVars
    \/ DailyFire /\ UNCHANGED nonDailyVars
    \/ \E d \in {1, MinuteLen, HourLen} :
          TimePasses(d) /\ UNCHANGED nonDailyVars

NextSched ==
    \/ \E k \in ScheduleKinds : SchedCreate(k) /\ UNCHANGED nonSchedVars
    \/ \E i \in SchedIds : SchedDelete(i) /\ UNCHANGED nonSchedVars
    \/ \E i \in SchedIds : BecomeDue(i) /\ UNCHANGED nonSchedVars
    \/ \E i \in SchedIds : SchedStep(i) /\ UNCHANGED nonSchedVars
    \/ ExternalExecute /\ UNCHANGED nonSchedVars
    \/ ExecutorDone /\ UNCHANGED nonSchedVars
    \/ ProtocolInstalled /\ UNCHANGED nonSchedVars

PollLoop ==
    \/ PollTickStart
    \/ \E res \in [PollNodes -> PollAnswers], fault \in Faults :
          PollTickApply(res, fault)

NextPoll ==
    \/ PollTickStart /\ UNCHANGED nonPollVars
    \/ \E res \in [PollNodes -> PollAnswers], fault \in Faults :
          PollTickApply(res, fault) /\ UNCHANGED nonPollVars
    \/ PollCancel /\ UNCHANGED nonPollVars

NextStore ==
    \/ \E r \in Robots, key \in ApiKeys :
          StoreAddRobot(r, key) /\ UNCHANGED nonStoreVars
    \/ \E r \in Robots : StoreDelRobot(r) /\ UNCHANGED nonStoreVars
    \/ \E rec \in StoreTaskRecs : StoreInsertTask(rec) /\ UNCHANGED nonStoreVars
    \/ \E r \in Robots, d \in Payloads :
          StoreTelemetry(r, OnlineStatus(d)) /\ UNCHANGED nonStoreVars
    \/ StoreRestart /\ UNCHANGED nonStoreVars

NextCal ==
    \/ \E p \in CalProcs : CalStart(p) /\ UNCHANGED nonCalVars
    \/ \E p \in CalProcs, i \in CalTaskIds : CalAdd(p, i) /\ UNCHANGED nonCalVars
    \/ \E p \in CalProcs, i \in CalTaskIds : CalUpdate(p, i) /\ UNCHANGED nonCalVars
    \/ \E p \in CalProcs, i \in CalTaskIds : CalDelete(p, i) /\ UNCHANGED nonCalVars

NextSingle ==
    \/ \E t \in GThreads : GetCheck(t) /\ UNCHANGED nonSingleVars
    \/ \E t \in GThreads : GetMake(t) /\ UNCHANGED nonSingleVars
    \/ \E t \in GThreads : GetReturn(t) /\ UNCHANGED nonSingleVars

NextNotify ==
    \/ \E c \in Callbacks : RegisterCallback(c) /\ UNCHANGED nonNotifyVars
    \/ \E c \in Callbacks : UnregisterCallback(c) /\ UNCHANGED nonNotifyVars
    \/ \E i \in CtKeys, raisers \in SUBSET Callbacks :
          CtAdd(i, raisers) /\ UNCHANGED nonNotifyVars
    \/ \E k \in CtKeys, newId \in CtKeys \cup {"same"}, raisers \in SUBSET Callbacks :
          CtUpdate(k, newId, raisers) /\ UNCHANGED nonNotifyVars
    \/ \E k \in CtKeys, raisers \in SUBSET Callbacks :
          CtDelete(k, raisers) /\ UNCHANGED nonNotifyVars

Spec == Init /\ [][Next]_vars

SpecNotify == NotifySpecInit /\ [][NextNotify]_vars

\* The pump node's controller and task runner alone.
NextPump ==
    \/ \E e \in PExecs : StartRiego(e) /\ UNCHANGED nonPumpVars
    \/ \E e \in PExecs, ms \in 0..MaxTicks :
          RunAcquire(e, ms) /\ UNCHANGED nonPumpVars
    \/ \E e \in PExecs : RunStep(e) /\ UNCHANGED nonPumpVars
    \/ \E e \in PExecs : RunRaise(e) /\ UNCHANGED nonPumpVars
    \/ \E e \in PExecs : RunThreadEnds(e) /\ UNCHANGED nonPumpVars
    \/ \E t \in PStops, e \in PExecs : StopCall(t, e) /\ UNCHANGED nonPumpVars
    \/ \E t \in PStops : PumpStop(t) /\ UNCHANGED nonPumpVars
    \/ \E t \in PStops : StopReturns(t) /\ UNCHANGED nonPumpVars

SpecPump == PumpSpecInit /\ [][NextPump]_vars

\* The regimen routes alone.
NextGen ==
    \/ \E r \in Regimens : AddRegimen(r) /\ UNCHANGED nonGenVars
    \/ GenerateStart /\ UNCHANGED nonGenVars
    \/ GeneratePass /\ UNCHANGED nonGenVars

\* The handler's thread keeps running while it is in the loop.
SpecGen ==
    GenSpecInit /\ [][NextGen]_vars /\ WF_vars(GeneratePass /\ UNCHANGED nonGenVars)

SpecCal == CalSpecInit /\ [][NextCal]_vars

SpecSingle == SingleSpecInit /\ [][NextSingle]_vars

SpecStore == StoreSpecInit /\ [][NextStore]_vars

\* The event loop runs the poll task again after each sleep, and the gather
\* returns within the requests' timeouts.
SpecPoll ==
    PollSpecInit /\ [][NextPoll]_vars /\ WF_vars(PollLoop /\ UNCHANGED nonPollVars)

\* The scheduler's loop is a thread of its own that wakes every few seconds,
\* and the runner brings every execution to an end.
SpecSched ==
    /\ SchedSpecInit /\ [][NextSched]_vars
    /\ \A i \in SchedIds : WF_vars(SchedStep(i) /\ UNCHANGED nonSchedVars)
    /\ WF_vars(ExecutorDone /\ UNCHANGED nonSchedVars)

SpecDaily == DailySpecInit /\ [][NextDaily]_vars

SpecNode == NodeSpecInit /\ [][NextNode]_vars

\* The runner's loop is a thread of its own and is always scheduled again.
SpecRunner ==
    RunnerSpecInit /\ [][NextRunner]_vars /\ WF_vars(RunnerLoop /\ UNCHANGED nonRunVars)

SpecTasks == TaskSpecInit /\ [][NextTasks]_vars

SpecBcast == BcastInit /\ [][NextBcast]_vars

\* ------------------------------------------------------------------ claims

\* The step in which the poll loop applies the gathered results.
PollApplied == pollPc = "gather" /\ pollPc' = "sleep"

C5_StreamEndMarksOffline ==
    [][\A r \in Robots :
         (sse_tasks[r] = "stream" /\ sse_tasks'[r] \in {"connect", "sleep"}) =>
            /\ last_robot_status'[r] = SseOffline
            /\ sse_tasks'[r] = "sleep"
            /\ last_robot_status[r] # SseOffline => emitted']_vars

C8_OnlyFailedRemoved ==
    [][returned' # NoBroadcast =>
        /\ Range(ws_clients') = Range(ws_clients) \ returned'.failed
        /\ \A c \in Range(returned'.targets) \ returned'.failed :
              returned'.msg \in Range(recv'[c])
        /\ \A c \in returned'.failed : returned'.msg \notin Range(recv'[c])]_vars

\* A broadcast to two sockets has returned: one send raised and that socket
\* is off the list, the other socket got the message and is still on it.
C8_Witness ==
    /\ returned # NoBroadcast
    /\ returned.failed # {}
    /\ \E c \in Range(returned.targets) \ returned.failed :
          /\ c \in Range(ws_clients)
          /\ returned.msg \in Range(recv[c])
    /\ \A c \in returned.failed : c \notin Range(ws_clients)

\* C9: every subscriber is sent the node-status snapshots in the order in
\* which they were produced.
C9_MonotonicPerSubscriber ==
    \A c \in Clients :
        \A i, j \in DOMAIN recv[c] :
            (i < j /\ recv[c][i][1] = "robots_status"
                   /\ recv[c][j][1] = "robots_status") =>
                recv[c][i][2] < recv[c][j][2]

\* C10: no subscriber is sent more than one `snapshot` envelope.
C10_SnapshotOnce ==
    \A c \in Clients :
        Cardinality({i \in DOMAIN recv[c] : recv[c][i][1] = "snapshot"}) <= 1

\* ------------------------------------------------------- claims on tasks

\* The terminal values of TaskStatus.
Terminal(st) == st \in {"completed", "stopped", "error", "timeout"}

\* The step in which a pass applies the answer to its request.
ReconApplied == recon.pc = "wait" /\ recon' # recon

\* C11: no step of a reconciliation pass takes a record from a terminal
\* status to a non-terminal one; a record stopped while the pass's request
\* for it was in flight stays "stopped" whatever the answer says.
C11_TerminalStays ==
    [][ReconApplied =>
         \A t \in Range(tasks) :
            Terminal(t.status) => Terminal(Rec(tasks', t.id).status)]_vars

\* The step in which a dispatch route receives the node's answer.
DispatchAnswered == req.kind \in DispatchRoutes /\ req' = NoReq

\* C12: a dispatch or stop for an id the registry does not hold ends with
\* NotFound and sends nothing, and a request is only ever sent to a
\* registered node; when the node answers the execute request with a
\* non-success status, the caller gets that status, the task list and the
\* saved store stay as they were and no task_added is broadcast.
C12_RejectedDispatch ==
    [][/\ (req = NoReq /\ req' # NoReq) =>
             req'.robot \in robots /\ contacted'
       /\ (req = NoReq /\ req' = NoReq /\ lastCode' # "none") =>
             /\ lastCode' = "404"
             /\ ~contacted'
             /\ nodeExec' = nodeExec
             /\ tasks' = tasks /\ persisted' = persisted
             /\ hubMsg' # "task_added"
       /\ (DispatchAnswered /\ req.reply # "ok") =>
             /\ req.reply # "exc" => lastCode' = req.reply
             /\ tasks' = tasks /\ persisted' = persisted
             /\ hubMsg' # "task_added"]_vars

\* The node was running the recorded execution and answered Conflict to a
\* second dispatch.
C12_Witness ==
    /\ lastCode = "409"
    /\ req = NoReq
    /\ Len(tasks) = 1
    /\ NodeBusy

\* C13: once the route that started it has returned, every execution
\* started on the node through the hub has exactly one record with its
\* execution id, and that record is in the saved store.
C13_EveryExecutionRecorded ==
    req.kind \notin DispatchRoutes =>
        \A e \in hubStarted :
           /\ Cardinality({i \in DOMAIN tasks : tasks[i].eid = e}) = 1
           /\ \E i \in DOMAIN persisted : persisted[i].eid = e

\* C14: a pass sends its request only for a record whose status is not
\* terminal, it passes over no non-terminal record of a registered node, and
\* the step that applies an answer leaves every terminal record as it was.
C14_OnlyNonTerminalQueried ==
    [][/\ lastQueried' # "none" => ~Terminal(lastQueried')
       /\ (recon = ReconIdle /\ passEnd' # "none") =>
             \A t \in Range(tasks) :
                Terminal(t.status) \/ t.robot \notin robots
       /\ ReconApplied =>
             \A t \in Range(tasks) :
                Terminal(t.status) => Rec(tasks', t.id) = t]_vars

\* C15: when the request of a pass fails (no answer, or an answer other
\* than 200), the step leaves every record as it was: the record asked about
\* keeps its status and its end time.
C15_FailureKeepsRecord ==
    [][(ReconApplied /\ answered' = "fail") => tasks' = tasks]_vars

\* A pass over a record that is still under way ended on a failed request.
C15_Witness ==
    /\ answered = "fail"
    /\ passEnd = "unchanged"
    /\ \E t \in Range(tasks) : t.status = "executing" /\ ~t.ended

\* C16: the step that ends a pass broadcasts tasks_update only if the pass
\* has changed a record; a pass that changed none broadcasts nothing.
C16_BroadcastOnlyIfChanged ==
    [][passEnd' = "unchanged" => hubMsg' # "tasks_update"]_vars

\* C17: when stop_task returns after the node accepted the stop, every
\* record of that node and execution id is "stopped" with an end time, in
\* the list and in the saved store; when the node answers with a
\* non-success status or the request fails, no record is modified.
C17_StopMarksRecords ==
    [][/\ (req.kind = "stop_bcast" /\ req' = NoReq) =>
             \A t \in Range(tasks') \cup Range(persisted') :
                (t.eid = req.eid /\ t.robot = req.robot) =>
                   t.status = "stopped" /\ t.ended
       /\ (req.kind = "stop" /\ req.reply # "ok" /\ req' = NoReq) =>
             tasks' = tasks /\ persisted' = persisted]_vars

\* -------------------------------------------------------- claims on a node

\* The step in which the execute request of handler h is answered.
ExecAnswered(h) == hx'[h] # hx[h] /\ hx'[h].pc = "idle"

\* C18: at no instant has the node two executions that are queued or
\* running, and an execute request answered while an execution is active
\* (on a node with its link open) is answered Conflict and starts nothing.
C18_SingleExecution ==
    [][/\ Cardinality(ActiveExec(nodeExec')) <= 1
       /\ \A h \in Handlers :
            (serial /\ ActiveExec(nodeExec) # {} /\ ExecAnswered(h)) =>
               hx'[h].reply = "conflict" /\ nodeExec' = nodeExec]_vars

\* C19: while a protocol runs, no control command is setting the actuators
\* while a tick is between its read and its apply.
C19_NoControlInsideTick ==
    ~(runnerActive /\ tick = "mid" /\ ctl.pc = "writing")

\* C20: on a node whose link is closed, a step that handles an execute
\* request or a control request answers Disconnected at once and changes
\* neither the environment nor the execution table.
C20_DisconnectedRejects ==
    [][~serial =>
         /\ \A h \in Handlers :
              (hx[h].pc = "idle" /\ hx'[h] # hx[h]) =>
                 /\ hx'[h] = HandlerIdle("disconnected")
                 /\ env' = env /\ nodeExec' = nodeExec
         /\ (ctl.pc = "idle" /\ ctl' # ctl) =>
                 /\ ctl' = HandlerIdle("disconnected")
                 /\ env' = env /\ nodeExec' = nodeExec]_vars

\* ------------------------------------------------------ claims on the runner

\* The step in which an execution of the runner ends.
RunEnded == rState = "running" /\ rState' = "idle"

\* C21: an activation of calibrar ends only at its deadline or by a stop,
\* never by itself; when it ends at the deadline, the finalize hook has run,
\* the actuators are zeroed, the runner is idle and the result is tagged
\* "timeout", as after a stop but for the tag; and a running calibrar does
\* not run forever.
C21_TimeoutStopsSafely ==
    /\ [][(RunEnded /\ rProto = "calibrar") =>
             /\ rFinalized' /\ rActuators' = "zero"
             /\ rResult' \in {"timeout", "stopped"}
             /\ rResult' = "timeout" => rLeft = 0]_vars
    /\ ((rState = "running" /\ rProto = "calibrar") ~> (rState = "idle"))

\* calibrar ran out its whole timeout and was shut down at the deadline.
C21_Witness ==
    /\ rState = "idle"
    /\ rProto = "calibrar"
    /\ rTimeout = MaxTimeout
    /\ rResult = "timeout"
    /\ rFinalized
    /\ rActuators = "zero"

\* ----------------------------------------- claims on unknown names

\* C22: on a node with its link open, an execute request that names an
\* unknown protocol is answered NotFound, and the step starts no execution
\* and leaves the runner as it was.
C22_UnknownProtocolNotFound ==
    [][(serial /\ ux' # ux) =>
          /\ ux' = "notfound"
          /\ nodeExec' = nodeExec
          /\ runnerActive' = runnerActive]_vars

\* C23: a stop request for an execution id the node does not know is
\* answered NotFound and changes no execution record.
C23_UnknownStopNotFound ==
    [][(sx' # sx /\ nodeExec[sx'.eid] = "none") =>
          /\ sx'.reply = "notfound"
          /\ nodeExec' = nodeExec]_vars

\* ------------------------------------------- claims on the daily schedule

\* C24: right after a daily schedule's next_execution is computed at time
\* now, at creation or after a fire, it lies after now and at most one day
\* after now.
C24_DailyWithinOneDay ==
    dCause # "idle" => dNow < dNext /\ dNext <= dNow + DayLen

\* A fire at hour:minute sharp: the next execution is one full day ahead.
C24_Witness ==
    dCause = "fire" /\ dNow = TodayAt(dNow, dHour, dMinute)
        /\ dNext = dNow + DayLen

\* ----------------------------------------------- claims on the scheduler

\* The step in which the dispatch of schedule i is rejected.
Rejected(i) ==
    sd' # sd /\ sd'.sid = i /\ sd'.outcome \in {"conflict", "missing"}

\* C25: a due schedule whose dispatch is rejected stays active and due,
\* whatever its kind; and a due active schedule whose protocol exists is
\* eventually fired (or deleted).
C25_RejectedIsRetried ==
    /\ [][\A i \in SchedIds : Rejected(i) => scheds'[i] = scheds[i]]_vars
    /\ \A i \in SchedIds :
          (scheds[i].active /\ scheds[i].due /\ protoPresent)
              ~> ((sd.sid = i /\ sd.outcome = "fired") \/ scheds[i] = Absent)

\* A schedule that fires once has just been rejected for a busy executor
\* and is still active and due.
C25_Witness ==
    /\ sd = [sid |-> 1, outcome |-> "conflict"]
    /\ scheds[1] = [kind |-> "once", active |-> TRUE, due |-> TRUE]

\* C26: the schedule a create request answers with was not listed before
\* and is listed after; a delete request for a listed id removes it from the
\* list; a delete request for an id that is not listed is answered NotFound
\* and leaves the schedule set as it was.
C26_ScheduleCrudRoundTrip ==
    [][cx' # cx =>
         /\ cx'.reply = "created" =>
               /\ cx'.id \notin ListIds(scheds)
               /\ ListIds(scheds') = ListIds(scheds) \cup {cx'.id}
         /\ (cx'.op = "delete" /\ cx'.id \in ListIds(scheds)) =>
               /\ cx'.reply = "deleted"
               /\ ListIds(scheds') = ListIds(scheds) \ {cx'.id}
         /\ (cx'.op = "delete" /\ cx'.id \notin ListIds(scheds)) =>
               /\ cx'.reply = "notfound"
               /\ scheds' = scheds]_vars

\* An id that was created and deleted is deleted again: NotFound, with the
\* other schedule still listed.
C26_Witness ==
    /\ cx = [op |-> "delete", id |-> 2, reply |-> "notfound"]
    /\ ListIds(scheds) = {1}

\* ------------------------------------------------ claims on the poll loop

C28_StoreRoundTrip ==
    /\ [](LoadedRobots(stFile) = stRobots /\ LoadedTasks(stFile) = stTasks)
    /\ [](stFile # NoFile => DOMAIN stFile = {"robots", "tasks"})
    /\ [][stBoots' # stBoots =>
            /\ stRobots' = stRobots /\ stTasks' = stTasks
            /\ \A r \in Robots : ~IsOnline(StatusShown(r)')]_vars

\* The hub was started again with a node (holding an API key) that was
\* online, and with a task record without execution id.
C28_Witness ==
    /\ stBoots > 0
    /\ stRobots["r2"] = NewRobot("r2", PyStr("k"))
    /\ stRobots["r1"] = NewRobot("r1", PyNone)
    /\ Len(stTasks) = MaxStoreTasks /\ stTasks[1].execution_id = PyNone
    /\ stCache["r2"] = NoStatus

\* ------------------------------------------------ claims on the calendar

\* C29: with any number of robot processes holding a SharedCalendar on the
\* same directory, the file holds for every task what the last change made
\* to that task by any process left: no change is lost or undone by
\* another process's save.
C29_NoLostChange == calFile = calTruth

\* C30: at most one SharedCalendar is ever created in a process, and all
\* calls that have returned, returned the same instance.
C30_OneGlobalCalendar ==
    /\ gCreated <= 1
    /\ \A t, u \in GThreads : (gRet[t] # 0 /\ gRet[u] # 0) => gRet[t] = gRet[u]

\* --------------------------------------- claims on the calendar callbacks

\* The event an operation announces.
EventOf(op) ==
    CASE op = "add" -> "task_added"
      [] op = "update" -> "task_updated"
      [] op = "delete" -> "task_deleted"

\* C31: an add, update or delete that succeeds calls every registered
\* callback exactly once, with the operation's event, whichever callbacks
\* raise; an update or delete of a key the map does not hold returns False,
\* changes no task and calls no callback.
C31_CallbacksNotified ==
    [][ctOp' # NoOp =>
         /\ (ctOp'.op \in {"update", "delete"} /\ ctTasks[ctOp'.key] = "none") =>
               ctOp'.ret = "False"
         /\ IF ctOp'.ret = "False"
            THEN ctTasks' = ctTasks /\ cbCalls' = <<>>
            ELSE /\ Len(cbCalls') = Len(cbList)
                 /\ \A n \in DOMAIN cbList :
                      Cardinality({m \in DOMAIN cbCalls' :
                          cbCalls'[m] = [cb |-> cbList[n],
                                         event |-> EventOf(ctOp'.op)]}) = 1]_vars

\* A delete whose first callback raised has still called the second.
C31_Witness ==
    /\ ctOp = [op |-> "delete", key |-> "a", ret |-> "True", raised |-> {"c1"}]
    /\ cbList = <<"c1", "c2">>
    /\ cbCalls = <<[cb |-> "c1", event |-> "task_deleted"],
                   [cb |-> "c2", event |-> "task_deleted"]>>

\* C37: every task of the map is stored under its own id.
C37_KeyIsTaskId ==
    \A k \in CtKeys : ctTasks[k] # "none" => ctTasks[k] = k

\* ------------------------------------------------ claims on the streaks

\* Both counters of a node within their range, at most one of them not 0.
StreaksExclusive(ok, fail) ==
    \A r \in Robots :
        /\ ok[r] \in 0..StreakCap
        /\ fail[r] \in 0..StreakCap
        /\ ok[r] = 0 \/ fail[r] = 0

\* The step applies a poll observation of node r.
Observed(r) == pollPc = "gather" /\ pollPc' = "sleep" /\ r \in pollRobots

\* C32: whatever was observed so far, both streak counters of every node
\* are within 0..5 and at most one is not 0; an observed success leaves the
\* failure streak at 0 and an observed failure the success streak at 0.
C32_StreaksExclusive ==
    [][/\ StreaksExclusive(ok_streak, fail_streak)
       /\ StreaksExclusive(ok_streak', fail_streak')
       /\ \A r \in Robots : Observed(r) =>
            /\ runKind'[r] = "ok" => fail_streak'[r] = 0 /\ ok_streak'[r] > 0
            /\ runKind'[r] = "fail" => ok_streak'[r] = 0 /\ fail_streak'[r] > 0]_vars

\* A failed observation of a node shown online has ended its success streak.
C32_Witness ==
    \E r \in Robots :
        /\ runKind[r] = "fail"
        /\ fail_streak[r] = 1
        /\ ok_streak[r] = 0
        /\ IsOnline(last_robot_status[r])

\* ------------------------------------------- claims on offline markings

\* The statuses the stream-failure path and the process watcher write.
MarkStatuses == {SseOffline, ProcOffline}

\* The step applies a poll observation to node r while a marking of r stands
\* as its cached status.
PolledWhileMarked(r) ==
    Observed(r) /\ okSince[r] >= 0 /\ last_robot_status[r] \in MarkStatuses

C34_StopInterruptsRun ==
    \A t \in PStops :
        (sPc[t] = "mark" /\ sDuring[t] # 0) => rEnd[sDuring[t]] # "full"

\* The lock and the flags agree: one run at most is in its loop, and
\* _running is set only while a run in its loop holds the lock.
PumpFlagsAgree(lock, running, pc) ==
    /\ Cardinality({e \in PExecs : pc[e] = "loop"}) <= 1
    /\ running => (lock # 0 /\ pc[lock] = "loop")

\* C35: over every interleaving of runs and stops, one run at most is in
\* its timed loop, is_running is true only while a run holds the lock, and
\* a run_ms that returns or raises leaves is_running false and the stop
\* flag cleared.
C35_PumpInvariants ==
    [][/\ PumpFlagsAgree(pLock, pRunning, rPc)
       /\ PumpFlagsAgree(pLock', pRunning', rPc')
       /\ \A e \in PExecs :
            (rPc[e] = "loop" /\ rPc'[e] \in {"after", "raised"}) =>
                (~pRunning' /\ ~pStopFlag')]_vars

\* One run has returned after its full time while the next one holds the
\* lock and a stop waits for it.
C35_Witness ==
    \E e \in PExecs, d \in PExecs, t \in PStops :
        /\ rPc[e] = "after" /\ rEnd[e] = "full"
        /\ rPc[d] = "loop" /\ pLock = d /\ pRunning
        /\ sPc[t] = "wait"

\* C36: an execution whose TaskRunner.stop has returned has the status
\* "stopped" from then on.
C36_StoppedStays ==
    \A e \in PExecs : stopReturned[e] => xStatus[e] = "stopped"

\* ------------------------------------------------ claims on the regimens

\* C38: generate_activities comes to an end for every regimen that can be
\* stored, and a second call in a row adds no activity.
C38_GenerateTerminates ==
    /\ (genPc = "loop") ~> (genPc # "loop")
    /\ [][(genCalls >= 1 /\ genPc = "loop") => activities' = activities]_vars

====
